---- MODULE Spec2Model ----
(***************************************************************************)
(* vbcli: the message composition and transport layer.                     *)
(*                                                                         *)
(* Strings are sequences of one-character strings.  A Go byte index i      *)
(* (0-based) addresses element i+1 of the sequence; Slice(s, a, b) is the  *)
(* Go slice s[a:b].                                                        *)
(***************************************************************************)
EXTENDS Integers, Sequences, FiniteSets, TLC

VARIABLES
    input,      \* substituteTemplateCharacterAliases: the argument
    i,          \* its scan index (Go's i, 0-based)
    out,        \* its strings.Builder
    scan,       \* "run" inside the for loop, "done" once it has returned
    last,       \* the locals of the latest loop iteration: the branch taken, the
                \* index it started at, end, token and the text it wrote
    verdict,    \* looksLikeRawCharactersJSON, decodeEscapes: <<>> before the call,
                \* then <<result>>
    call,       \* the invocation: the command, its arguments and flags, stdin and
                \* the environment (or, for the client alone, the method called)
    pc,         \* "start", "compose" or "write" while that request is in flight,
                \* "done" once the command has returned
    steps,      \* the calls of the input pipeline made so far, in order, each
                \* with its argument and its result
    requests,   \* the HTTP requests issued so far, in order
    responses,  \* the HTTP responses received so far, in order
    err,        \* the error returned (noError for nil)
    characters, \* the [][]int the command holds
    stdout,     \* what the command has printed
    log,        \* what logHTTP has written to the log sink, in order, each
                \* write with the number of requests sent before it
    ctx         \* the context.Context the operations are given: "live", or
                \* "cancelled" once its Done channel is closed

scanVars == <<input, i, out, scan, last>>

cliVars == <<call, pc, steps, requests, responses, err, characters, stdout, log, ctx>>

vars == <<input, i, out, scan, last, verdict, call, pc, steps, requests, responses, err,
          characters, stdout, log, ctx>>

----------------------------------------------------------------------------
(* Bounds of the model *)

\* Longest run of padding whitespace put around a token's interior.
MaxPad == 1

\* Most rows, and most cells in a row, of a generated character matrix.
MaxRows == 2

MaxCols == 2

\* The shortest trimmed input the sniffer takes for a matrix (root.go, line 388).
minRawLength == 10

\* Most pieces (characters and escape sequences) of a generated free text.
MaxPieces == 3

----------------------------------------------------------------------------
(* Go's strings and strconv helpers *)

Slice(s, a, b) == SubSeq(s, a + 1, b)

SliceFrom(s, a) == SubSeq(s, a + 1, Len(s))

\* unicode.IsSpace restricted to the one-byte code points: strings.TrimSpace
\* and strings.Fields both use it.
IsSpace(c) == c \in {" ", "\t", "\n", "\r", "\f", "VT"}

RECURSIVE TrimLeft(_)
TrimLeft(s) ==
    IF s # <<>> /\ IsSpace(Head(s)) THEN TrimLeft(Tail(s)) ELSE s

RECURSIVE TrimRight(_)
TrimRight(s) ==
    IF s # <<>> /\ IsSpace(s[Len(s)]) THEN TrimRight(SubSeq(s, 1, Len(s) - 1)) ELSE s

TrimSpace(s) == TrimRight(TrimLeft(s))

HasPrefix(s, p) == Len(s) >= Len(p) /\ SubSeq(s, 1, Len(p)) = p

HasSuffix(s, p) == Len(s) >= Len(p) /\ SubSeq(s, Len(s) - Len(p) + 1, Len(s)) = p

\* strings.Index(s, sub): the first 0-based offset of sub in s, or -1.
Index(s, sub) ==
    LET hits == {k \in 0..(Len(s) - Len(sub)) : SubSeq(s, k + 1, k + Len(sub)) = sub}
    IN  IF hits = {} THEN -1 ELSE CHOOSE k \in hits : \A m \in hits : k <= m

IndexByte(s, c) == Index(s, <<c>>)

Contains(s, sub) == Index(s, sub) # -1

upperChars == <<"A","B","C","D","E","F","G","H","I","J","K","L","M",
                "N","O","P","Q","R","S","T","U","V","W","X","Y","Z">>

lowerChars == <<"a","b","c","d","e","f","g","h","i","j","k","l","m",
                "n","o","p","q","r","s","t","u","v","w","x","y","z">>

ToLowerChar(c) ==
    IF \E n \in 1..26 : upperChars[n] = c
    THEN lowerChars[CHOOSE n \in 1..26 : upperChars[n] = c]
    ELSE c

ToUpperChar(c) ==
    IF \E n \in 1..26 : lowerChars[n] = c
    THEN upperChars[CHOOSE n \in 1..26 : lowerChars[n] = c]
    ELSE c

ToLower(s) == [n \in 1..Len(s) |-> ToLowerChar(s[n])]

\* strings.NewReplacer("_", " ", "-", " ").Replace
ReplaceSeparators(s) == [n \in 1..Len(s) |-> IF s[n] \in {"_", "-"} THEN " " ELSE s[n]]

\* strings.Fields: the maximal runs of non-space characters, in order.
RECURSIVE Fields(_)
Fields(s) ==
    LET t == TrimLeft(s)
        stops == {n \in 1..Len(t) : IsSpace(t[n])}
        cut == IF stops = {} THEN Len(t) + 1 ELSE CHOOSE n \in stops : \A m \in stops : n <= m
    IN  IF t = <<>> THEN <<>>
        ELSE <<SubSeq(t, 1, cut - 1)>> \o Fields(SubSeq(t, cut, Len(t)))

\* strings.Join(parts, sep)
RECURSIVE Join(_, _)
Join(parts, sep) ==
    IF parts = <<>> THEN <<>>
    ELSE IF Len(parts) = 1 THEN parts[1]
    ELSE parts[1] \o sep \o Join(Tail(parts), sep)

digitChars == <<"0","1","2","3","4","5","6","7","8","9">>

IsDigit(c) == \E n \in 1..10 : digitChars[n] = c

DigitValue(c) == (CHOOSE n \in 1..10 : digitChars[n] = c) - 1

IsHexDigit(c) ==
    IsDigit(c) \/ c \in {"a", "b", "c", "d", "e", "f", "A", "B", "C", "D", "E", "F"}

AllDigits(s) == s # <<>> /\ \A n \in 1..Len(s) : IsDigit(s[n])

RECURSIVE StripZeros(_)
StripZeros(s) == IF Len(s) > 1 /\ Head(s) = "0" THEN StripZeros(Tail(s)) ELSE s

\* Lexicographic a <= b for digit strings of equal length.
RECURSIVE DigitsLeq(_, _)
DigitsLeq(a, b) ==
    IF a = <<>> THEN TRUE
    ELSE IF DigitValue(Head(a)) < DigitValue(Head(b)) THEN TRUE
    ELSE IF DigitValue(Head(a)) > DigitValue(Head(b)) THEN FALSE
    ELSE DigitsLeq(Tail(a), Tail(b))

\* 2^63 - 1 and 2^63, the magnitudes a 64-bit int holds.
maxInt64Digits == <<"9","2","2","3","3","7","2","0","3","6","8","5","4","7","7","5","8","0","7">>

minInt64Digits == <<"9","2","2","3","3","7","2","0","3","6","8","5","4","7","7","5","8","0","8">>

\* Whether the magnitude written by the digit string fits an int64 of that sign.
FitsInt64(digits, negative) ==
    LET d == StripZeros(digits)
    IN  \/ Len(d) < 19
        \/ Len(d) = 19 /\ DigitsLeq(d, IF negative THEN minInt64Digits ELSE maxInt64Digits)

\* strconv.Atoi(s) returns a nil error: an optional sign, then decimal digits
\* only, and a value in the range of int.
AtoiOk(s) ==
    LET signed == s # <<>> /\ Head(s) \in {"+", "-"}
        digits == IF signed THEN Tail(s) ELSE s
    IN  AllDigits(digits) /\ FitsInt64(digits, signed /\ Head(s) = "-")

\* fmt's %d of a non-negative int.
RECURSIVE FormatInt(_)
FormatInt(n) ==
    IF n < 10 THEN <<digitChars[n + 1]>>
    ELSE FormatInt(n \div 10) \o <<digitChars[(n % 10) + 1]>>

----------------------------------------------------------------------------
(* encoding/json, as far as json.Unmarshal into [][]int and into a struct   *)
(* with one [][]int field goes.  A parsed value is a record                 *)
(*   [type, items, text]: type is "array", "object", "string", "number",    *)
(*   "bool" or "null"; items holds an array's values or an object's         *)
(*   [key, val] members; text holds a string's characters or a number's     *)
(*   literal.                                                               *)

\* The whitespace of the JSON grammar.
IsJsonSpace(c) == c \in {" ", "\t", "\r", "\n"}

\* The 1-based position of the first character at or after p that is not JSON
\* whitespace, Len(s) + 1 when there is none.
RECURSIVE SkipSpace(_, _)
SkipSpace(s, p) ==
    IF p <= Len(s) /\ IsJsonSpace(s[p]) THEN SkipSpace(s, p + 1) ELSE p

JsonFail == [ok |-> FALSE, val |-> [type |-> "null", items |-> <<>>, text |-> <<>>], pos |-> 0]

JsonValue(type, items, text) == [type |-> type, items |-> items, text |-> text]

\* The end (exclusive) of the run of digits starting at p.
RECURSIVE DigitsEnd(_, _)
DigitsEnd(s, p) ==
    IF p <= Len(s) /\ IsDigit(s[p]) THEN DigitsEnd(s, p + 1) ELSE p

\* The parts of a number literal at p:
\*   -? (0 | [1-9][0-9]*) (. [0-9]+)? ([eE] [+-]? [0-9]+)?
\* SignEnd is where its integer part starts, IntegerEnd, FractionEnd and
\* ExponentEnd where each part ends (exclusive; the start when it is absent).
SignEnd(s, p) == IF s[p] = "-" THEN p + 1 ELSE p

IntegerEnd(s, q) == IF q <= Len(s) /\ s[q] = "0" THEN q + 1 ELSE DigitsEnd(s, q)

FractionEnd(s, intEnd) ==
    IF intEnd <= Len(s) /\ s[intEnd] = "." THEN DigitsEnd(s, intEnd + 1) ELSE intEnd

HasExponent(s, fracEnd) == fracEnd <= Len(s) /\ s[fracEnd] \in {"e", "E"}

ExponentFrom(s, fracEnd) ==
    IF fracEnd + 1 <= Len(s) /\ s[fracEnd + 1] \in {"+", "-"} THEN fracEnd + 2 ELSE fracEnd + 1

ExponentEnd(s, fracEnd) ==
    IF HasExponent(s, fracEnd) THEN DigitsEnd(s, ExponentFrom(s, fracEnd)) ELSE fracEnd

NumberWith(s, p, intEnd, fracEnd) ==
    IF /\ intEnd > SignEnd(s, p)
       /\ fracEnd = intEnd \/ fracEnd > intEnd + 1
       /\ ~HasExponent(s, fracEnd) \/ ExponentEnd(s, fracEnd) > ExponentFrom(s, fracEnd)
    THEN [ok |-> TRUE,
          val |-> JsonValue("number", <<>>, SubSeq(s, p, ExponentEnd(s, fracEnd) - 1)),
          pos |-> ExponentEnd(s, fracEnd)]
    ELSE JsonFail

NumberAt(s, p, intEnd) == NumberWith(s, p, intEnd, FractionEnd(s, intEnd))

ParseNumber(s, p) == NumberAt(s, p, IntegerEnd(s, SignEnd(s, p)))

\* A string literal whose opening quote is at p - 1: the characters up to the
\* closing quote, escapes kept as written.  Control characters and unknown
\* escapes are syntax errors.
RECURSIVE ParseStringFrom(_, _, _)
ParseStringFrom(s, p, acc) ==
    IF p > Len(s) THEN JsonFail
    ELSE IF s[p] = "\"" THEN [ok |-> TRUE, val |-> JsonValue("string", <<>>, acc), pos |-> p + 1]
    ELSE IF s[p] \in {"\n", "\t", "\r", "\f"} THEN JsonFail
    ELSE IF s[p] = "\\"
    THEN IF p + 1 <= Len(s) /\ s[p + 1] \in {"\"", "\\", "/", "b", "f", "n", "r", "t"}
         THEN ParseStringFrom(s, p + 2, acc \o <<s[p], s[p + 1]>>)
         ELSE IF p + 5 <= Len(s) /\ s[p + 1] = "u" /\ \A n \in (p + 2)..(p + 5) : IsHexDigit(s[n])
         THEN ParseStringFrom(s, p + 6, acc \o SubSeq(s, p, p + 5))
         ELSE JsonFail
    ELSE ParseStringFrom(s, p + 1, acc \o <<s[p]>>)

LiteralAt(s, p, word) ==
    p + Len(word) - 1 <= Len(s) /\ SubSeq(s, p, p + Len(word) - 1) = word

RECURSIVE ParseValue(_, _)
RECURSIVE ParseItems(_, _, _)
RECURSIVE ItemsAfter(_, _, _)
RECURSIVE ItemsNext(_, _, _)
RECURSIVE ParseMembers(_, _, _)
RECURSIVE MemberAfterKey(_, _, _)
RECURSIVE MemberAtColon(_, _, _, _)
RECURSIVE MemberAfterValue(_, _, _, _)
RECURSIVE MembersNext(_, _, _)

\* The value that starts at position p (not whitespace).
ParseValue(s, p) ==
    IF p > Len(s) THEN JsonFail
    ELSE IF s[p] = "[" THEN
        IF SkipSpace(s, p + 1) <= Len(s) /\ s[SkipSpace(s, p + 1)] = "]"
        THEN [ok |-> TRUE, val |-> JsonValue("array", <<>>, <<>>), pos |-> SkipSpace(s, p + 1) + 1]
        ELSE ParseItems(s, SkipSpace(s, p + 1), <<>>)
    ELSE IF s[p] = "{" THEN
        IF SkipSpace(s, p + 1) <= Len(s) /\ s[SkipSpace(s, p + 1)] = "}"
        THEN [ok |-> TRUE, val |-> JsonValue("object", <<>>, <<>>), pos |-> SkipSpace(s, p + 1) + 1]
        ELSE ParseMembers(s, SkipSpace(s, p + 1), <<>>)
    ELSE IF s[p] = "\"" THEN ParseStringFrom(s, p + 1, <<>>)
    ELSE IF s[p] = "-" \/ IsDigit(s[p]) THEN ParseNumber(s, p)
    ELSE IF LiteralAt(s, p, <<"n", "u", "l", "l">>)
    THEN [ok |-> TRUE, val |-> JsonValue("null", <<>>, <<>>), pos |-> p + 4]
    ELSE IF LiteralAt(s, p, <<"t", "r", "u", "e">>)
    THEN [ok |-> TRUE, val |-> JsonValue("bool", <<>>, <<"t", "r", "u", "e">>), pos |-> p + 4]
    ELSE IF LiteralAt(s, p, <<"f", "a", "l", "s", "e">>)
    THEN [ok |-> TRUE, val |-> JsonValue("bool", <<>>, <<"f", "a", "l", "s", "e">>), pos |-> p + 5]
    ELSE JsonFail

\* The values of an array from position p on, after "[" or ",": a value, then
\* (ItemsAfter, ItemsNext) "," and the next value, or "]".
ParseItems(s, p, acc) == ItemsAfter(s, acc, ParseValue(s, p))

ItemsAfter(s, acc, item) ==
    IF ~item.ok THEN JsonFail
    ELSE ItemsNext(s, acc \o <<item.val>>, SkipSpace(s, item.pos))

ItemsNext(s, items, q) ==
    IF q > Len(s) THEN JsonFail
    ELSE IF s[q] = "," THEN ParseItems(s, SkipSpace(s, q + 1), items)
    ELSE IF s[q] = "]"
    THEN [ok |-> TRUE, val |-> JsonValue("array", items, <<>>), pos |-> q + 1]
    ELSE JsonFail

\* The members of an object from position p on, after "{" or ",": a string
\* key, then (MemberAfterKey, MemberAtColon) ":" and a value, then
\* (MemberAfterValue, MembersNext) "," and the next member, or "}".
ParseMembers(s, p, acc) ==
    IF p <= Len(s) /\ s[p] = "\""
    THEN MemberAfterKey(s, acc, ParseStringFrom(s, p + 1, <<>>))
    ELSE JsonFail

MemberAfterKey(s, acc, key) ==
    IF ~key.ok THEN JsonFail
    ELSE MemberAtColon(s, acc, key.val.text, SkipSpace(s, key.pos))

MemberAtColon(s, acc, name, colon) ==
    IF colon <= Len(s) /\ s[colon] = ":"
    THEN MemberAfterValue(s, acc, name, ParseValue(s, SkipSpace(s, colon + 1)))
    ELSE JsonFail

MemberAfterValue(s, acc, name, member) ==
    IF ~member.ok THEN JsonFail
    ELSE MembersNext(s, acc \o <<[key |-> name, val |-> member.val]>>, SkipSpace(s, member.pos))

MembersNext(s, items, q) ==
    IF q > Len(s) THEN JsonFail
    ELSE IF s[q] = "," THEN ParseMembers(s, SkipSpace(s, q + 1), items)
    ELSE IF s[q] = "}"
    THEN [ok |-> TRUE, val |-> JsonValue("object", items, <<>>), pos |-> q + 1]
    ELSE JsonFail

\* The whole text is one JSON value, whitespace around it allowed.
WholeValue(s, r) == IF r.ok /\ SkipSpace(s, r.pos) > Len(s) THEN r ELSE JsonFail

ParseJson(s) == WholeValue(s, ParseValue(s, SkipSpace(s, 1)))

\* A number literal that strconv.ParseInt(literal, 10, 64) accepts.
IsIntLiteral(text) ==
    LET digits == IF Head(text) = "-" THEN Tail(text) ELSE text
    IN  AllDigits(digits) /\ FitsInt64(digits, Head(text) = "-")

RECURSIVE DigitsValue(_)
DigitsValue(digits) ==
    IF digits = <<>> THEN 0
    ELSE 10 * DigitsValue(SubSeq(digits, 1, Len(digits) - 1)) + DigitValue(digits[Len(digits)])

IntValue(text) ==
    IF Head(text) = "-" THEN 0 - DigitsValue(Tail(text)) ELSE DigitsValue(text)

\* A value decodes into an int without a type error: an integer literal, or
\* null, which leaves the int as it is.
CellOk(v) == v.type = "null" \/ (v.type = "number" /\ IsIntLiteral(v.text))

CellValue(v) == IF v.type = "null" THEN 0 ELSE IntValue(v.text)

\* A value decodes into a []int: an array of cells, or null (a nil slice).
RowOk(v) ==
    \/ v.type = "null"
    \/ v.type = "array" /\ \A n \in 1..Len(v.items) : CellOk(v.items[n])

RowValue(v) == [n \in 1..Len(v.items) |-> CellValue(v.items[n])]

\* A value decodes into a [][]int.
MatrixOk(v) ==
    \/ v.type = "null"
    \/ v.type = "array" /\ \A n \in 1..Len(v.items) : RowOk(v.items[n])

\* The [][]int decoded; a nil slice and an empty one are both <<>>.
MatrixValue(v) == [n \in 1..Len(v.items) |-> RowValue(v.items[n])]

\* json.Unmarshal(text, &characters) with characters a [][]int: ok is
\* err == nil.  DecodeMatrix is the decoding of the parsed text r.
DecodeMatrix(r) ==
    IF r.ok /\ MatrixOk(r.val)
    THEN [ok |-> TRUE, characters |-> MatrixValue(r.val)]
    ELSE [ok |-> FALSE, characters |-> <<>>]

UnmarshalMatrix(text) == DecodeMatrix(ParseJson(text))

----------------------------------------------------------------------------
(* cmd/template_aliases.go *)

aliasEntries == <<
    [k |-> <<"b","l","a","n","k">>, v |-> 0],
    [k |-> <<"s","p","a","c","e">>, v |-> 0],
    [k |-> <<"e","x","c","l","a","m","a","t","i","o","n">>, v |-> 37],
    [k |-> <<"e","x","c","l","a","m","a","t","i","o","n"," ","m","a","r","k">>, v |-> 37],
    [k |-> <<"a","t">>, v |-> 38],
    [k |-> <<"p","o","u","n","d">>, v |-> 39],
    [k |-> <<"h","a","s","h">>, v |-> 39],
    [k |-> <<"d","o","l","l","a","r">>, v |-> 40],
    [k |-> <<"l","e","f","t"," ","p","a","r","e","n","t","h","e","s","i","s">>, v |-> 41],
    [k |-> <<"o","p","e","n"," ","p","a","r","e","n","t","h","e","s","i","s">>, v |-> 41],
    [k |-> <<"r","i","g","h","t"," ","p","a","r","e","n","t","h","e","s","i","s">>, v |-> 42],
    [k |-> <<"c","l","o","s","e"," ","p","a","r","e","n","t","h","e","s","i","s">>, v |-> 42],
    [k |-> <<"h","y","p","h","e","n">>, v |-> 44],
    [k |-> <<"d","a","s","h">>, v |-> 44],
    [k |-> <<"p","l","u","s">>, v |-> 46],
    [k |-> <<"a","m","p","e","r","s","a","n","d">>, v |-> 47],
    [k |-> <<"e","q","u","a","l">>, v |-> 48],
    [k |-> <<"e","q","u","a","l","s">>, v |-> 48],
    [k |-> <<"s","e","m","i","c","o","l","o","n">>, v |-> 49],
    [k |-> <<"c","o","l","o","n">>, v |-> 50],
    [k |-> <<"s","i","n","g","l","e"," ","q","u","o","t","e">>, v |-> 52],
    [k |-> <<"a","p","o","s","t","r","o","p","h","e">>, v |-> 52],
    [k |-> <<"d","o","u","b","l","e"," ","q","u","o","t","e">>, v |-> 53],
    [k |-> <<"p","e","r","c","e","n","t">>, v |-> 54],
    [k |-> <<"c","o","m","m","a">>, v |-> 55],
    [k |-> <<"p","e","r","i","o","d">>, v |-> 56],
    [k |-> <<"d","o","t">>, v |-> 56],
    [k |-> <<"s","l","a","s","h">>, v |-> 59],
    [k |-> <<"f","o","r","w","a","r","d"," ","s","l","a","s","h">>, v |-> 59],
    [k |-> <<"q","u","e","s","t","i","o","n">>, v |-> 60],
    [k |-> <<"q","u","e","s","t","i","o","n"," ","m","a","r","k">>, v |-> 60],
    [k |-> <<"d","e","g","r","e","e">>, v |-> 62],
    [k |-> <<"h","e","a","r","t">>, v |-> 62],
    [k |-> <<"r","e","d">>, v |-> 63],
    [k |-> <<"o","r","a","n","g","e">>, v |-> 64],
    [k |-> <<"y","e","l","l","o","w">>, v |-> 65],
    [k |-> <<"g","r","e","e","n">>, v |-> 66],
    [k |-> <<"b","l","u","e">>, v |-> 67],
    [k |-> <<"v","i","o","l","e","t">>, v |-> 68],
    [k |-> <<"p","u","r","p","l","e">>, v |-> 68],
    [k |-> <<"w","h","i","t","e">>, v |-> 69],
    [k |-> <<"b","l","a","c","k">>, v |-> 70],
    [k |-> <<"f","i","l","l","e","d">>, v |-> 71]
>>

\* The map templateCharacterAliases: canonical alias name -> character code.
templateCharacterAliases ==
    [key \in {aliasEntries[n].k : n \in 1..Len(aliasEntries)} |->
        (CHOOSE e \in {aliasEntries[n] : n \in 1..Len(aliasEntries)} : e.k = key).v]

\* canonicalAlias without the strings.NewReplacer step.
canonicalAliasNoFold(s) ==
    LET lower == ToLower(TrimSpace(s))
    IN  Join(Fields(lower), <<" ">>)

canonicalAlias(s) ==
    LET lower == ToLower(TrimSpace(s))
    IN  Join(Fields(ReplaceSeparators(lower)), <<" ">>)

\* Which branch of rewriteTemplateToken the token takes.
rewriteKind(token) ==
    IF token = <<>> THEN "empty"
    ELSE IF AtoiOk(token) THEN "numeric"
    ELSE IF canonicalAlias(token) \in DOMAIN templateCharacterAliases THEN "alias"
    ELSE "unknown"

\* rewriteTemplateToken printing the parsed value of a numeric token, not its text.
rewriteTemplateTokenAsValue(token) ==
    CASE rewriteKind(token) = "empty"   -> <<"{", "}">>
      [] rewriteKind(token) = "numeric" ->
            <<"{">> \o StripZeros(IF Head(token) = "+" THEN Tail(token) ELSE token) \o <<"}">>
      [] rewriteKind(token) = "alias"   ->
            <<"{">> \o FormatInt(templateCharacterAliases[canonicalAlias(token)]) \o <<"}">>
      [] OTHER                          -> <<"{">> \o token \o <<"}">>

rewriteTemplateToken(token) ==
    CASE rewriteKind(token) = "empty"   -> <<"{", "}">>
      [] rewriteKind(token) = "numeric" -> <<"{">> \o token \o <<"}">>
      [] rewriteKind(token) = "alias"   ->
            <<"{">> \o FormatInt(templateCharacterAliases[canonicalAlias(token)]) \o <<"}">>
      [] OTHER                          -> <<"{">> \o token \o <<"}">>

\* The scanner stands at "{{" (line 60).
AtExpression(s, n) == HasPrefix(SliceFrom(s, n), <<"{", "{">>)

\* end of line 61 and of line 78, before the index is made absolute.
ExpressionEnd(s, n) == Index(SliceFrom(s, n + 2), <<"}", "}">>)

TokenEnd(s, n) == IndexByte(SliceFrom(s, n + 1), "}")

\* The token handed to rewriteTemplateToken (line 85).
TokenAt(s, n) == TrimSpace(Slice(s, n + 1, TokenEnd(s, n) + n + 1))

\* The loop taking one character more than the "}}" that closes an expression.
ScanStepOvershooting(s, n) ==
    IF AtExpression(s, n)
    THEN IF ExpressionEnd(s, n) = -1
         THEN [branch |-> "expressionUnclosed", emit |-> SliceFrom(s, n),
               end |-> -1, token |-> <<>>, next |-> n, stop |-> TRUE]
         ELSE [branch |-> "expression", emit |-> Slice(s, n, ExpressionEnd(s, n) + n + 4),
               end |-> ExpressionEnd(s, n) + n + 5, token |-> <<>>,
               next |-> ExpressionEnd(s, n) + n + 5, stop |-> FALSE]
    ELSE IF s[n + 1] # "{"
    THEN [branch |-> "byte", emit |-> <<s[n + 1]>>,
          end |-> -1, token |-> <<>>, next |-> n + 1, stop |-> FALSE]
    ELSE IF TokenEnd(s, n) = -1
    THEN [branch |-> "tokenUnclosed", emit |-> SliceFrom(s, n),
          end |-> -1, token |-> <<>>, next |-> n, stop |-> TRUE]
    ELSE [branch |-> "token", emit |-> rewriteTemplateToken(TokenAt(s, n)),
          end |-> TokenEnd(s, n) + n + 1, token |-> TokenAt(s, n),
          next |-> TokenEnd(s, n) + n + 2, stop |-> FALSE]

\* The loop writing a closed "{{ }}" expression without its outer braces.
ScanStepUnwrapping(s, n) ==
    IF AtExpression(s, n)
    THEN IF ExpressionEnd(s, n) = -1
         THEN [branch |-> "expressionUnclosed", emit |-> SliceFrom(s, n),
               end |-> -1, token |-> <<>>, next |-> n, stop |-> TRUE]
         ELSE [branch |-> "expression",
               emit |-> Slice(s, n + 1, ExpressionEnd(s, n) + n + 3),
               end |-> ExpressionEnd(s, n) + n + 4, token |-> <<>>,
               next |-> ExpressionEnd(s, n) + n + 4, stop |-> FALSE]
    ELSE IF s[n + 1] # "{"
    THEN [branch |-> "byte", emit |-> <<s[n + 1]>>,
          end |-> -1, token |-> <<>>, next |-> n + 1, stop |-> FALSE]
    ELSE IF TokenEnd(s, n) = -1
    THEN [branch |-> "tokenUnclosed", emit |-> SliceFrom(s, n),
          end |-> -1, token |-> <<>>, next |-> n, stop |-> TRUE]
    ELSE [branch |-> "token", emit |-> rewriteTemplateToken(TokenAt(s, n)),
          end |-> TokenEnd(s, n) + n + 1, token |-> TokenAt(s, n),
          next |-> TokenEnd(s, n) + n + 2, stop |-> FALSE]

\* The loop writing only the brace it stands at when the brace is not closed.
ScanStepBraceOnly(s, n) ==
    IF AtExpression(s, n)
    THEN IF ExpressionEnd(s, n) = -1
         THEN [branch |-> "expressionUnclosed", emit |-> <<"{", "{">>,
               end |-> -1, token |-> <<>>, next |-> n, stop |-> TRUE]
         ELSE [branch |-> "expression", emit |-> Slice(s, n, ExpressionEnd(s, n) + n + 4),
               end |-> ExpressionEnd(s, n) + n + 4, token |-> <<>>,
               next |-> ExpressionEnd(s, n) + n + 4, stop |-> FALSE]
    ELSE IF s[n + 1] # "{"
    THEN [branch |-> "byte", emit |-> <<s[n + 1]>>,
          end |-> -1, token |-> <<>>, next |-> n + 1, stop |-> FALSE]
    ELSE IF TokenEnd(s, n) = -1
    THEN [branch |-> "tokenUnclosed", emit |-> <<"{">>,
          end |-> -1, token |-> <<>>, next |-> n, stop |-> TRUE]
    ELSE [branch |-> "token", emit |-> rewriteTemplateToken(TokenAt(s, n)),
          end |-> TokenEnd(s, n) + n + 1, token |-> TokenAt(s, n),
          next |-> TokenEnd(s, n) + n + 2, stop |-> FALSE]

\* One iteration of the for loop at index n: what it writes, the next index,
\* and whether it leaves the loop by break.
ScanStep(s, n) ==
    IF AtExpression(s, n)
    THEN IF ExpressionEnd(s, n) = -1
         THEN [branch |-> "expressionUnclosed", emit |-> SliceFrom(s, n),
               end |-> -1, token |-> <<>>, next |-> n, stop |-> TRUE]
         ELSE [branch |-> "expression", emit |-> Slice(s, n, ExpressionEnd(s, n) + n + 4),
               end |-> ExpressionEnd(s, n) + n + 4, token |-> <<>>,
               next |-> ExpressionEnd(s, n) + n + 4, stop |-> FALSE]
    ELSE IF s[n + 1] # "{"
    THEN [branch |-> "byte", emit |-> <<s[n + 1]>>,
          end |-> -1, token |-> <<>>, next |-> n + 1, stop |-> FALSE]
    ELSE IF TokenEnd(s, n) = -1
    THEN [branch |-> "tokenUnclosed", emit |-> SliceFrom(s, n),
          end |-> -1, token |-> <<>>, next |-> n, stop |-> TRUE]
    ELSE [branch |-> "token", emit |-> rewriteTemplateToken(TokenAt(s, n)),
          end |-> TokenEnd(s, n) + n + 1, token |-> TokenAt(s, n),
          next |-> TokenEnd(s, n) + n + 2, stop |-> FALSE]

RECURSIVE ScanFrom(_, _)
ScanFrom(s, n) ==
    IF n >= Len(s) THEN <<>>
    ELSE LET st == ScanStep(s, n)
         IN  IF st.stop THEN st.emit ELSE st.emit \o ScanFrom(s, st.next)

substituteTemplateCharacterAliases(s) == ScanFrom(s, 0)

----------------------------------------------------------------------------
(* Inputs of the alias resolver *)

RECURSIVE StringsOver(_, _)
StringsOver(chars, n) ==
    IF n = 0 THEN {<<>>}
    ELSE StringsOver(chars, n - 1)
         \cup {<<c>> \o t : c \in chars, t \in {u \in StringsOver(chars, n - 1) : Len(u) = n - 1}}

\* Whitespace written around a token's interior.
Pads == StringsOver({" ", "\t"}, MaxPad)

SpacePads == StringsOver({" "}, MaxPad)

aliasKeys == DOMAIN templateCharacterAliases

ToUpper(s) == [n \in 1..Len(s) |-> ToUpperChar(s[n])]

MixedCase(s) == [n \in 1..Len(s) |-> IF n % 2 = 1 THEN ToUpperChar(s[n]) ELSE s[n]]

\* s with every space replaced by the string sep.
RECURSIVE ReplaceSpaces(_, _)
ReplaceSpaces(s, sep) ==
    IF s = <<>> THEN <<>>
    ELSE (IF Head(s) = " " THEN sep ELSE <<Head(s)>>) \o ReplaceSpaces(Tail(s), sep)

\* The spellings of alias key k that canonicalAlias is to fold back to k.
KeyVariants(k) ==
    {k, ToUpper(k), MixedCase(k),
     ReplaceSpaces(k, <<"_">>), ReplaceSpaces(k, <<"-">>),
     ReplaceSpaces(k, <<" ", " ">>), ReplaceSpaces(k, <<"\t">>),
     ReplaceSpaces(MixedCase(k), <<"_", " ">>)}

aliasWords == UNION {KeyVariants(k) : k \in aliasKeys}

unknownWords == {
    <<"u","n","k","n","o","w","n">>,
    <<"-","n","o","t","-","k","n","o","w","n","-">>,
    <<"n","o","t","-","a","-","r","e","a","l","-","a","l","i","a","s">>,
    <<"g","r","e"," ","e","n">>,
    <<"x">>,
    <<"g","r","e","e","n","i","s","h">>,
    <<"1","_","0">>,
    <<"6"," ","6">>,
    <<"1",".","5">>,
    <<"9","2","2","3","3","7","2","0","3","6","8","5","4","7","7","5","8","0","8">>}

numericWords == {
    <<"6","6">>,
    <<"1","2","3">>,
    <<"0">>,
    <<"7","1">>,
    <<"7","2">>,
    <<"0","0","7">>,
    <<"+","5">>,
    <<"-","3">>,
    <<"9","2","2","3","3","7","2","0","3","6","8","5","4","7","7","5","8","0","7">>,
    <<"-","9","2","2","3","3","7","2","0","3","6","8","5","4","7","7","5","8","0","8">>}

tokenWords == aliasWords \cup unknownWords \cup numericWords

\* A whole input that is one single-brace token.
TokenInput(l, w, r) == <<"{">> \o l \o w \o r \o <<"}">>

tokenInputs == {TokenInput(l, w, r) : l \in Pads, w \in tokenWords, r \in Pads}

scanLeads == {<<>>, <<"{">>, <<"x">>, <<"{", "x">>, <<"{", " ">>, <<"}">>}

scanOpens == {<<>>, <<"{">>, <<"{", "{">>}

scanWords == {<<>>, <<"x">>, <<"r", "e", "d">>, <<"6", "6">>, <<"a", "}", "b">>}

scanCloses == {<<>>, <<"}">>, <<"}", "}">>}

scanTails == {<<>>, <<"}">>, <<" ", "{", "R", "e", "d", "}">>, <<"{", "{", "x", "}", "}">>}

scanInputs ==
    {lead \o open \o l \o w \o r \o close \o tail :
        lead \in scanLeads, open \in scanOpens, l \in SpacePads, w \in scanWords,
        r \in SpacePads, close \in scanCloses, tail \in scanTails}

\* The inputs of cmd/template_aliases_test.go.
testInputs == {
    <<"h","e","l","l","o"," ","{","g","r","e","e","n","}"," ","{","q","u","e","s","t","i","o","n"," ","m","a","r","k","}"," ","{","6","6","}"," ","{","{","p","r","o","p","s",".","c","o","l","o","r","}","}"," ","{","u","n","k","n","o","w","n","}">>,
    <<"{"," "," ","p","u","r","p","l","e"," "," ","}"," ","{","-","n","o","t","-","k","n","o","w","n","-","}">>}

aliasInputs == tokenInputs \cup scanInputs \cup testInputs

----------------------------------------------------------------------------
(* substituteTemplateCharacterAliases as a state machine: one action per way *)
(* through the body of its for loop.                                        *)

\* The error value nil.
noError == [kind |-> "none"]

\* No command is running.
idleCli ==
    /\ call = [cmd |-> "none"]
    /\ pc = "idle"
    /\ steps = <<>>
    /\ requests = <<>>
    /\ responses = <<>>
    /\ err = noError
    /\ characters = <<>>
    /\ stdout = <<>>
    /\ log = <<>>
    /\ ctx = "live"

InitAlias ==
    /\ idleCli
    /\ input \in aliasInputs
    /\ i = 0
    /\ out = <<>>
    /\ scan = "run"
    /\ last = [branch |-> "none", start |-> 0, end |-> -1, token |-> <<>>, emit |-> <<>>]
    /\ verdict = <<>>

\* The locals an iteration at index n leaves behind.
Locals(s, n) ==
    [branch |-> ScanStep(s, n).branch, start |-> n, end |-> ScanStep(s, n).end,
     token |-> ScanStep(s, n).token, emit |-> ScanStep(s, n).emit]

InLoop == scan = "run" /\ i < Len(input)

\* Lines 60-69 with a closing "}}": the span is copied whole.
ScanExpression ==
    /\ InLoop
    /\ AtExpression(input, i)
    /\ ExpressionEnd(input, i) # -1
    /\ out' = out \o ScanStep(input, i).emit
    /\ last' = Locals(input, i)
    /\ i' = ScanStep(input, i).next
    /\ UNCHANGED <<input, scan, verdict, cliVars>>

\* Lines 62-65: no closing "}}", the remainder is copied and the loop left.
ScanExpressionUnclosed ==
    /\ InLoop
    /\ AtExpression(input, i)
    /\ ExpressionEnd(input, i) = -1
    /\ out' = out \o ScanStep(input, i).emit
    /\ last' = Locals(input, i)
    /\ scan' = "done"
    /\ UNCHANGED <<input, i, verdict, cliVars>>

\* Lines 72-76: a character that opens nothing.
ScanByte ==
    /\ InLoop
    /\ ~AtExpression(input, i)
    /\ input[i + 1] # "{"
    /\ out' = out \o ScanStep(input, i).emit
    /\ last' = Locals(input, i)
    /\ i' = ScanStep(input, i).next
    /\ UNCHANGED <<input, scan, verdict, cliVars>>

\* Lines 78-87 with a closing "}": the token is rewritten.
ScanToken ==
    /\ InLoop
    /\ ~AtExpression(input, i)
    /\ input[i + 1] = "{"
    /\ TokenEnd(input, i) # -1
    /\ out' = out \o ScanStep(input, i).emit
    /\ last' = Locals(input, i)
    /\ i' = ScanStep(input, i).next
    /\ UNCHANGED <<input, scan, verdict, cliVars>>

\* Lines 79-82: no closing "}", the remainder is copied and the loop left.
ScanTokenUnclosed ==
    /\ InLoop
    /\ ~AtExpression(input, i)
    /\ input[i + 1] = "{"
    /\ TokenEnd(input, i) = -1
    /\ out' = out \o ScanStep(input, i).emit
    /\ last' = Locals(input, i)
    /\ scan' = "done"
    /\ UNCHANGED <<input, i, verdict, cliVars>>

\* Line 59's condition fails and line 90 returns.
ScanReturn ==
    /\ scan = "run"
    /\ i >= Len(input)
    /\ scan' = "done"
    /\ UNCHANGED <<input, i, out, last, verdict, cliVars>>

NextAlias ==
    \/ ScanExpression
    \/ ScanExpressionUnclosed
    \/ ScanByte
    \/ ScanToken
    \/ ScanTokenUnclosed
    \/ ScanReturn

SpecAlias == InitAlias /\ [][NextAlias]_vars

\* The function runs: it does not stay inside its loop for ever without
\* taking a step.  This is the weak fairness of NextAlias, WF_vars(NextAlias),
\* with ENABLED <<NextAlias>>_vars written as the state predicate it equals:
\* while scan = "run" one of the six actions can be taken (an iteration when
\* i < Len(input), the return otherwise) and each of them changes i or scan.
SpecAliasFair == SpecAlias /\ ([]<>(scan # "run") \/ []<><<NextAlias>>_vars)

\* The state machine returns what the function returns.
ScanAgrees == scan = "done" => out = substituteTemplateCharacterAliases(input)

----------------------------------------------------------------------------
(* Properties of the alias resolver, checked under SpecAlias *)

\* The well-formed expressions of s: each "{{", with its interior, up to the
\* first "}}" that follows it.
WellFormedExpressions(s) ==
    {Slice(s, a, ExpressionEnd(s, a) + a + 4) :
        a \in {b \in 0..(Len(s) - 2) : AtExpression(s, b) /\ ExpressionEnd(s, b) # -1}}

\* C2: the output contains every well-formed {{expr}} substring of the input
\* byte for byte, whatever its interior and whatever precedes it.
C2_ExpressionsPreserved ==
    scan = "done" => \A e \in WellFormedExpressions(input) : Contains(out, e)

\* The interior of the token the latest iteration rewrote, as written in the
\* input: the text between its braces.
RawInterior == Slice(input, last.start + 1, last.end)

\* s without the blanks and tabs at its two ends.
Unpadded(s) ==
    LET solid == {n \in 1..Len(s) : s[n] \notin {" ", "\t"}}
    IN  IF solid = {} THEN <<>>
        ELSE SubSeq(s, CHOOSE n \in solid : \A m \in solid : n <= m,
                       CHOOSE n \in solid : \A m \in solid : n >= m)

\* The alias key each spelling stands for.
variantKey == [w \in aliasWords |-> CHOOSE k \in aliasKeys : w \in KeyVariants(k)]

Braced(s) == <<"{">> \o s \o <<"}">>

\* C6: a token holding a key k of the alias table, or a spelling of k in
\* mixed case, with extra whitespace around or inside it, or with "_" or "-"
\* for its spaces, is rewritten to {v}, v the table's value for k.
C6_AliasResolved ==
    (last.branch = "token" /\ Unpadded(RawInterior) \in aliasWords)
        => last.emit = Braced(FormatInt(templateCharacterAliases[variantKey[Unpadded(RawInterior)]]))

\* A padded, re-spelt "question mark" has been rewritten to {60}.
C6_Witness ==
    /\ last.branch = "token"
    /\ RawInterior = <<"\t", "Q","u","E","s","T","i","O","n","_"," ","m","A","r","K", " ">>
    /\ last.emit = <<"{", "6", "0", "}">>
    /\ scan = "done"
    /\ out = <<"{", "6", "0", "}">>

\* C7: a token whose trimmed interior is neither an integer literal nor,
\* canonicalized, a key of the alias table is emitted byte-identical to the
\* input token, whitespace next to the braces included.
C7_UnknownUntouched ==
    (/\ last.branch = "token"
     /\ ~AtoiOk(TrimSpace(RawInterior))
     /\ canonicalAlias(TrimSpace(RawInterior)) \notin aliasKeys)
        => last.emit = Braced(RawInterior)

\* C8: a token whose trimmed interior is an integer literal is emitted as
\* that literal between braces, digit for digit, without an alias lookup.
C8_NumericPassthrough ==
    (last.branch = "token" /\ AtoiOk(TrimSpace(RawInterior)))
        => /\ last.emit = Braced(Unpadded(RawInterior))
           /\ rewriteKind(last.token) = "numeric"

\* {123}, outside the display code range, and the padded { 007 } have both
\* been passed through.
C8_Witness ==
    /\ last.branch = "token"
    /\ scan = "done"
    /\ \/ input = <<"{", "1", "2", "3", "}">> /\ out = input
       \/ input = <<"{", " ", "0", "0", "7", "\t", "}">> /\ out = <<"{", "0", "0", "7", "}">>

\* The text from index n on (0-based) starts with "{{" and has no "}}" after
\* it; it starts with a "{" that opens no "{{" and has no "}" after it.
OpenExpressionAt(s, n) ==
    /\ n + 2 <= Len(s)
    /\ s[n + 1] = "{" /\ s[n + 2] = "{"
    /\ ~\E k \in (n + 3)..(Len(s) - 1) : s[k] = "}" /\ s[k + 1] = "}"

OpenTokenAt(s, n) ==
    /\ s[n + 1] = "{"
    /\ n + 2 > Len(s) \/ s[n + 2] # "{"
    /\ ~\E k \in (n + 2)..Len(s) : s[k] = "}"

\* C26: standing at "{{" with no later "}}", or at a single "{" with no
\* later "}", the scanner writes the whole remainder of the input as it is
\* and stops; standing at a character that is not "{", it writes that
\* character and moves on by one.
C26_UnclosedCopied ==
    [][(scan = "run" /\ i < Len(input)) =>
          /\ (OpenExpressionAt(input, i) \/ OpenTokenAt(input, i)) =>
                 (out' = out \o SubSeq(input, i + 1, Len(input)) /\ scan' = "done")
          /\ input[i + 1] # "{" =>
                 (out' = Append(out, input[i + 1]) /\ i' = i + 1 /\ scan' = "run")]_vars

\* The scanner met an unclosed "{{" after the start of the input and has
\* returned the input with the token after the "{{" still in it.
C26_Witness ==
    /\ scan = "done"
    /\ \E n \in 1..Len(input) :
           /\ OpenExpressionAt(input, n)
           /\ \A k \in 1..n : input[k] # "{"
           /\ Contains(SubSeq(input, n + 1, Len(input)), <<"{", "R", "e", "d", "}">>)
    /\ out = input

\* C27: substituteTemplateCharacterAliases is idempotent: resolving what it
\* returned gives what it returned.
C27_Idempotent ==
    scan = "done" => substituteTemplateCharacterAliases(out) = out

\* Trimming moved the "{" of a token's interior next to the token's own
\* "{", and the scan has returned a text other than its input.
C27_Witness ==
    /\ scan = "done"
    /\ HasPrefix(input, <<"{", " ", "{">>)
    /\ HasPrefix(out, <<"{", "{">>)
    /\ out # input

\* One iteration of the loop: it starts where the one before it ended, and
\* it leaves the loop or moves the index forward, not past the end of the
\* input.
Progress ==
    (scan = "run" /\ i < Len(input)) =>
        /\ last'.start = i
        /\ scan' = "done" \/ (i < i' /\ i' <= Len(input))

\* The input positions the scan has dealt with: those before the index, and
\* all of them once an unclosed brace has had the remainder copied.
Covered ==
    IF last.branch \in {"expressionUnclosed", "tokenUnclosed"} THEN Len(input) ELSE i

\* C29: substituteTemplateCharacterAliases terminates on every input: each
\* iteration of its loop leaves the loop or moves the index forward by at
\* least one, the index never exceeds the length of the input, and when it
\* returns every position of the input has been dealt with, by the one
\* iteration that started at or before it.
C29_Terminates ==
    /\ [][Progress]_vars
    /\ [](i <= Len(input))
    /\ [](scan = "done" => Covered = Len(input))
    /\ <>(scan = "done")

\* The scan of an input of more than five characters has returned after a
\* token that closes at the end of the input.
C29_Witness ==
    /\ scan = "done"
    /\ Len(input) > 5
    /\ i = Len(input)
    /\ last.branch = "token"
    /\ last.start > 0

----------------------------------------------------------------------------
(* cmd/root.go: the functions of the send pipeline *)

\* The printable ASCII characters, code points 32 to 126 in order; the grave
\* accent (code point 96) is the element "GRAVE".
asciiChars == <<
    " ","!","\"","#","$","%","&","'","(",")","*","+",",","-",".","/",
    "0","1","2","3","4","5","6","7","8","9",":",";","<","=",">","?",
    "@","A","B","C","D","E","F","G","H","I","J","K","L","M","N","O",
    "P","Q","R","S","T","U","V","W","X","Y","Z","[","\\","]","^","_",
    "GRAVE","a","b","c","d","e","f","g","h","i","j","k","l","m","n","o",
    "p","q","r","s","t","u","v","w","x","y","z","{","|","}","~">>

\* The character with code point v.  The control characters that TLA+ cannot
\* write are the elements "BEL", "BS" and "VT"; a code point outside ASCII is
\* named by its number.
CodeChar(v) ==
    CASE v = 7 -> "BEL" [] v = 8 -> "BS" [] v = 9 -> "\t" [] v = 10 -> "\n"
      [] v = 11 -> "VT" [] v = 12 -> "\f" [] v = 13 -> "\r"
      [] v >= 32 /\ v <= 126 -> asciiChars[v - 31]
      [] OTHER -> "U+" \o ToString(v)

HexValue(c) ==
    IF IsDigit(c) THEN DigitValue(c)
    ELSE CASE c \in {"a", "A"} -> 10 [] c \in {"b", "B"} -> 11 [] c \in {"c", "C"} -> 12
           [] c \in {"d", "D"} -> 13 [] c \in {"e", "E"} -> 14 [] OTHER -> 15

RECURSIVE BaseValue(_, _)
BaseValue(digits, base) ==
    IF digits = <<>> THEN 0
    ELSE base * BaseValue(SubSeq(digits, 1, Len(digits) - 1), base) + HexValue(digits[Len(digits)])

IsOctalDigit(c) == c \in {"0", "1", "2", "3", "4", "5", "6", "7"}

UnquoteFail == [ok |-> FALSE, char |-> "", rest |-> <<>>]

\* utf8.ValidRune
ValidRune(v) == (v >= 0 /\ v < 55296) \/ (v > 57343 /\ v <= 1114111)

\* The escape whose backslash is the head of s, n hex digits after its letter.
UnquoteHex(s, n) ==
    IF Len(s) < n + 2 \/ \E k \in 3..(n + 2) : ~IsHexDigit(s[k]) THEN UnquoteFail
    ELSE IF n = 8 /\ (s[3] # "0" \/ s[4] # "0") THEN UnquoteFail
    ELSE IF n > 2 /\ ~ValidRune(BaseValue(SubSeq(s, 3, n + 2), 16)) THEN UnquoteFail
    ELSE [ok |-> TRUE, char |-> CodeChar(BaseValue(SubSeq(s, 3, n + 2), 16)),
          rest |-> SubSeq(s, n + 3, Len(s))]

\* strconv.UnquoteChar for a double-quoted string and a non-empty s: the first character or
\* escape sequence of s decoded, and the rest of s.
UnquoteChar(s) ==
    IF Head(s) = "\"" THEN UnquoteFail
    ELSE IF Head(s) # "\\" THEN [ok |-> TRUE, char |-> Head(s), rest |-> Tail(s)]
    ELSE IF Len(s) <= 1 THEN UnquoteFail
    ELSE CASE s[2] = "a" -> [ok |-> TRUE, char |-> "BEL", rest |-> SubSeq(s, 3, Len(s))]
           [] s[2] = "b" -> [ok |-> TRUE, char |-> "BS", rest |-> SubSeq(s, 3, Len(s))]
           [] s[2] = "f" -> [ok |-> TRUE, char |-> "\f", rest |-> SubSeq(s, 3, Len(s))]
           [] s[2] = "n" -> [ok |-> TRUE, char |-> "\n", rest |-> SubSeq(s, 3, Len(s))]
           [] s[2] = "r" -> [ok |-> TRUE, char |-> "\r", rest |-> SubSeq(s, 3, Len(s))]
           [] s[2] = "t" -> [ok |-> TRUE, char |-> "\t", rest |-> SubSeq(s, 3, Len(s))]
           [] s[2] = "v" -> [ok |-> TRUE, char |-> "VT", rest |-> SubSeq(s, 3, Len(s))]
           [] s[2] = "x" -> UnquoteHex(s, 2)
           [] s[2] = "u" -> UnquoteHex(s, 4)
           [] s[2] = "U" -> UnquoteHex(s, 8)
           [] IsOctalDigit(s[2]) ->
                IF Len(s) < 4 \/ ~IsOctalDigit(s[3]) \/ ~IsOctalDigit(s[4]) THEN UnquoteFail
                ELSE IF BaseValue(SubSeq(s, 2, 4), 8) > 255 THEN UnquoteFail
                ELSE [ok |-> TRUE, char |-> CodeChar(BaseValue(SubSeq(s, 2, 4), 8)),
                      rest |-> SubSeq(s, 5, Len(s))]
           [] s[2] = "\\" -> [ok |-> TRUE, char |-> "\\", rest |-> SubSeq(s, 3, Len(s))]
           [] s[2] = "\"" -> [ok |-> TRUE, char |-> "\"", rest |-> SubSeq(s, 3, Len(s))]
           [] OTHER -> UnquoteFail

\* The loop of strconv.Unquote over the text between the quotes: it stops
\* with an error at a raw newline, at a bad escape and at an unescaped quote
\* (the string would end there with text left over).
RECURSIVE UnquoteBody(_, _)
RECURSIVE UnquoteNext(_, _)
UnquoteBody(s, acc) ==
    IF s = <<>> THEN [ok |-> TRUE, text |-> acc]
    ELSE IF Head(s) = "\n" THEN [ok |-> FALSE, text |-> <<>>]
    ELSE UnquoteNext(UnquoteChar(s), acc)

\* The loop giving back what it has decoded so far when it meets an error.
UnquoteNextPartial(r, acc) ==
    IF ~r.ok THEN [ok |-> TRUE, text |-> acc]
    ELSE UnquoteBody(r.rest, acc \o <<r.char>>)

UnquoteNext(r, acc) ==
    IF ~r.ok THEN [ok |-> FALSE, text |-> <<>>]
    ELSE UnquoteBody(r.rest, acc \o <<r.char>>)

\* strconv.Unquote of s between two double quotes.
Unquote(s) == UnquoteBody(s, <<>>)

\* decodeEscapes, unquoted being what strconv.Unquote returned.
unquotedOr(unquoted, s) == IF unquoted.ok THEN unquoted.text ELSE s

decodeEscapes(s) == unquotedOr(Unquote(s), s)

\* The length strings.TrimSpace and len see: "VT" is whitespace too.
looksLikeRawCharactersJSON(s) ==
    LET trimmed == TrimSpace(s)
    IN  IF Len(trimmed) < minRawLength THEN FALSE
        ELSE IF ~HasPrefix(trimmed, <<"[">>) \/ ~HasSuffix(trimmed, <<"]">>) THEN FALSE
        ELSE UnmarshalMatrix(trimmed).ok

\* parseCharacters: err is "" for nil, "json" for the decoder error and
\* "empty" for errors.New("empty array").  charactersOrError is the function
\* after json.Unmarshal has returned r.
charactersOrError(r) ==
    IF ~r.ok THEN [err |-> "json", characters |-> <<>>]
    ELSE IF Len(r.characters) = 0 THEN [err |-> "empty", characters |-> <<>>]
    ELSE [err |-> "", characters |-> r.characters]

parseCharacters(value) == charactersOrError(UnmarshalMatrix(value))

----------------------------------------------------------------------------
(* Inputs of the sniffer *)

cellValues == {0, 72}

RECURSIVE SeqsUpTo(_, _)
SeqsUpTo(S, n) ==
    IF n = 0 THEN {<<>>}
    ELSE SeqsUpTo(S, n - 1)
         \cup {<<x>> \o t : x \in S, t \in {u \in SeqsUpTo(S, n - 1) : Len(u) = n - 1}}

\* The matrices of up to MaxRows rows of up to MaxCols cells.
matrices == SeqsUpTo(SeqsUpTo(cellValues, MaxCols), MaxRows)

\* json.Marshal of a []int and of a [][]int.
RECURSIVE JoinComma(_)
JoinComma(parts) ==
    IF parts = <<>> THEN <<>>
    ELSE IF Len(parts) = 1 THEN parts[1]
    ELSE parts[1] \o <<",">> \o JoinComma(Tail(parts))

MarshalRow(row) == <<"[">> \o JoinComma([n \in 1..Len(row) |-> FormatInt(row[n])]) \o <<"]">>

MarshalMatrix(m) == <<"[">> \o JoinComma([n \in 1..Len(m) |-> MarshalRow(m[n])]) \o <<"]">>

outerPads == {<<>>, <<" ">>, <<"\n", " ">>, <<"\f">>}

handWritten == {
    <<"[","n","u","l","l",",","n","u","l","l","]">>,
    <<"[","[","1",",","n","u","l","l","]","]">>,
    <<"[","[","1",",","2","]",",","[","3",",","4","]","]">>,
    <<" ","[","[","1",",","2","]",",","[","3",",","4","]","]"," ">>,
    <<"h","e","l","l","o"," ","[","1",",","2","]">>,
    <<"{","\"","c","h","a","r","a","c","t","e","r","s","\"",":","[","[","1","]","]","}">>,
    <<"[","[","1","]","]">>,
    <<"["," "," "," "," "," "," "," "," ","]">>,
    <<"[","[","1",",","2","]",",","[","3",",","4","]">>,
    <<"[","[","1",",","2","]",",",",","[","3",",","4","]","]">>,
    <<"[","[","1",",","2","]",",","[","3",",","4","]",",","]">>,
    <<"[","1",",","2",",","3",",","4",",","5","]">>,
    <<"[","[","[","1",",","2",",","3","]","]","]">>,
    <<"[","[","1",".","5",",","2",",","3","]","]">>,
    <<"[","[","0","1",",","2",",","3",",","4","]","]">>,
    <<"[","[","-","1",",","2",",","3",",","4","]","]">>,
    <<"[","[","1",",","2","]",",","[","3",",","4","]","]","x">>,
    <<"[","[","1",","," ","2","]",",","\n"," ","[","3",","," ","4","]","]">>,
    <<"[","[","1","2","3","4","5","6","7","8","9","0","1","2","3","4","5","6","7","8","9","0","]","]">>,
    <<"[","[","\"","a","\"",",","\"","b","\"","]","]">>,
    <<"[","[","t","r","u","e",",","f","a","l","s","e","]","]">>,
    <<"[","[","7","2",",","6","9","]",",","[","0",",","0","]","]">>,
    <<"[","[","1",",","2","]",",","\\","n","[","3",",","4","]","]">>,
    <<"[","[","1",",","2","]","]"," ","[","[","3",",","4","]","]">>,
    <<"["," ","["," ","]"," ",","," ","["," ","]"," ","]">>}

sniffInputs ==
    handWritten \cup {l \o MarshalMatrix(m) \o r : l \in outerPads, m \in matrices, r \in {<<>>, <<" ">>}}

----------------------------------------------------------------------------
(* looksLikeRawCharactersJSON applied to one input *)

idleScan ==
    /\ i = 0
    /\ out = <<>>
    /\ scan = "idle"
    /\ last = [branch |-> "none", start |-> 0, end |-> -1, token |-> <<>>, emit |-> <<>>]

InitSniff ==
    /\ idleCli
    /\ input \in sniffInputs
    /\ verdict = <<>>
    /\ idleScan

Sniff ==
    /\ scan = "idle"
    /\ verdict = <<>>
    /\ verdict' = <<looksLikeRawCharactersJSON(input)>>
    /\ UNCHANGED <<scanVars, cliVars>>

NextSniff == Sniff

SpecSniff == InitSniff /\ [][NextSniff]_vars

----------------------------------------------------------------------------
(* decodeEscapes applied to one input.  A free text is built from pieces,  *)
(* each a record [src, lit, kind]: src is what the text holds, lit what    *)
(* the piece stands for, kind is "plain" for a character that is not a     *)
(* backslash, "escape" for a backslash sequence of the grammar of          *)
(* strconv.Unquote and "bad" for a backslash sequence outside it.          *)

Piece(src, lit, kind) == [src |-> src, lit |-> lit, kind |-> kind]

plainPieces == {
    Piece(<<"a">>, <<"a">>, "plain"),
    Piece(<<"n">>, <<"n">>, "plain"),
    Piece(<<"\"">>, <<"\"">>, "plain"),
    Piece(<<"\n">>, <<"\n">>, "plain")}

escapePieces == {
    Piece(<<"\\", "n">>, <<"\n">>, "escape"),
    Piece(<<"\\", "t">>, <<"\t">>, "escape"),
    Piece(<<"\\", "\\">>, <<"\\">>, "escape"),
    Piece(<<"\\", "\"">>, <<"\"">>, "escape"),
    Piece(<<"\\", "x", "4", "1">>, <<"A">>, "escape"),
    Piece(<<"\\", "1", "0", "1">>, <<"A">>, "escape")}

badPieces == {
    Piece(<<"\\", "q">>, <<>>, "bad"),
    Piece(<<"\\", "'">>, <<>>, "bad")}

\* Backslash sequences cut short by the end of the text.
danglingPieces == {
    Piece(<<"\\">>, <<>>, "bad"),
    Piece(<<"\\", "x", "4">>, <<>>, "bad")}

RECURSIVE Source(_)
Source(pieces) == IF pieces = <<>> THEN <<>> ELSE Head(pieces).src \o Source(Tail(pieces))

RECURSIVE Literal(_)
Literal(pieces) == IF pieces = <<>> THEN <<>> ELSE Head(pieces).lit \o Literal(Tail(pieces))

freeTexts ==
    {body \o tail : body \in SeqsUpTo(plainPieces \cup escapePieces \cup badPieces, MaxPieces),
                    tail \in {<<>>} \cup {<<d>> : d \in danglingPieces}}

InitDecode ==
    /\ call \in {[cmd |-> "decodeEscapes", pieces |-> t] : t \in freeTexts}
    /\ input = Source(call.pieces)
    /\ pc = "idle"
    /\ steps = <<>>
    /\ requests = <<>>
    /\ responses = <<>>
    /\ err = noError
    /\ characters = <<>>
    /\ stdout = <<>>
    /\ log = <<>>
    /\ ctx = "live"
    /\ verdict = <<>>
    /\ idleScan

Decode ==
    /\ call.cmd = "decodeEscapes"
    /\ verdict = <<>>
    /\ verdict' = <<decodeEscapes(input)>>
    /\ UNCHANGED <<scanVars, cliVars>>

NextDecode == Decode

SpecDecode == InitDecode /\ [][NextDecode]_vars

----------------------------------------------------------------------------
(* internal/vestaboard: the transport client.  An HTTP request is a record  *)
(* [method, url, header, body]; the body is the payload before json.Marshal. *)
(* An error is a record whose kind names its class.                         *)

baseURL == "https://cloud.vestaboard.com"

writePath == "/"

vbmlBaseURL == "https://vbml.vestaboard.com"

vbmlFormatPath == "/compose"

headerName == "X-vestaboard-token"

\* http.StatusConflict
StatusConflict == 409

errMissingAPIKey == [kind |-> "config", text |-> "VESTABOARD_TOKEN is not set"]

\* An io.Writer: the nil interface, a writer that keeps what is written to it,
\* or one whose every Write returns an error.
nilWriter == [kind |-> "nil"]

bufferWriter == [kind |-> "buffer"]

brokenWriter == [kind |-> "broken"]

\* The Option WithVerboseLogging returns, as the two fields it sets.
WithVerboseLogging(enabled, writer) == [verbose |-> enabled, logWriter |-> writer]

\* The options applied in order to the client (lines 353-355).
RECURSIVE ApplyOptions(_, _)
ApplyOptions(client, options) ==
    IF options = <<>> THEN client
    ELSE ApplyOptions([client EXCEPT !.verbose = Head(options).verbose,
                                     !.logWriter = Head(options).logWriter],
                      Tail(options))

NewClient(apiKey, options) ==
    IF TrimSpace(apiKey) = <<>>
    THEN [err |-> errMissingAPIKey,
          client |-> [baseURL |-> "", vbmlURL |-> "", apiKey |-> <<>>,
                      verbose |-> FALSE, logWriter |-> nilWriter]]
    ELSE [err |-> noError,
          client |-> ApplyOptions([baseURL |-> baseURL, vbmlURL |-> vbmlBaseURL,
                                   apiKey |-> TrimSpace(apiKey),
                                   verbose |-> FALSE, logWriter |-> nilWriter],
                                  options)]

\* postMessage with a request that tells whether the client logs.
postMessageRequestVerbose(client, payload) ==
    [method |-> "POST",
     url |-> client.baseURL \o writePath,
     header |-> <<[name |-> "Content-Type", value |-> "application/json"],
                  [name |-> headerName, value |-> client.apiKey]>>
                \o (IF client.verbose
                    THEN <<[name |-> "X-Verbose", value |-> client.apiKey]>> ELSE <<>>),
     body |-> payload]

\* postMessage up to httpClient.Do: the request it builds.
postMessageRequest(client, payload) ==
    [method |-> "POST",
     url |-> client.baseURL \o writePath,
     header |-> <<[name |-> "Content-Type", value |-> "application/json"],
                  [name |-> headerName, value |-> client.apiKey]>>,
     body |-> payload]

\* postMessage with every status outside 200..299 an error, 409 included.
postMessageConflictFails(status, respBody) ==
    IF status < 200 \/ status >= 300
    THEN [kind |-> "status", api |-> "vestaboard", status |-> status, body |-> TrimSpace(respBody)]
    ELSE noError

\* postMessage from the response on: the error it returns.  resp.Status is
\* kept as the status code it starts with.
postMessage(status, respBody) ==
    IF status = StatusConflict THEN noError
    ELSE IF status < 200 \/ status >= 300
    THEN [kind |-> "status", api |-> "vestaboard", status |-> status, body |-> TrimSpace(respBody)]
    ELSE noError

\* The request of SendCharacters.
SendCharacters(client, matrix) == postMessageRequest(client, [characters |-> matrix])

\* FormatMessage setting the token header as postMessage does.
FormatMessageRequestWithToken(client, message, model, align, justify) ==
    [method |-> "POST",
     url |-> client.vbmlURL \o vbmlFormatPath,
     header |-> <<[name |-> "Content-Type", value |-> "application/json"],
                  [name |-> headerName, value |-> client.apiKey]>>,
     body |-> IF model = <<"n","o","t","e">>
              THEN [components |-> <<[template |-> message,
                                      style |-> [align |-> align, justify |-> justify]]>>,
                    style |-> [height |-> 3, width |-> 15]]
              ELSE [components |-> <<[template |-> message,
                                      style |-> [align |-> align, justify |-> justify]]>>]]

\* FormatMessage with the top-level style put into every payload.
FormatMessageRequestStyled(client, message, model, align, justify) ==
    [method |-> "POST",
     url |-> client.vbmlURL \o vbmlFormatPath,
     header |-> <<[name |-> "Content-Type", value |-> "application/json"]>>,
     body |-> [components |-> <<[template |-> message,
                                 style |-> [align |-> align, justify |-> justify]]>>,
               style |-> [height |-> 3, width |-> 15]]]

\* FormatMessage up to httpClient.Do: the request it builds.
FormatMessageRequest(client, message, model, align, justify) ==
    LET components == <<[template |-> message, style |-> [align |-> align, justify |-> justify]]>>
    IN  [method |-> "POST",
         url |-> client.vbmlURL \o vbmlFormatPath,
         header |-> <<[name |-> "Content-Type", value |-> "application/json"]>>,
         body |-> IF model = <<"n","o","t","e">>
                  THEN [components |-> components, style |-> [height |-> 3, width |-> 15]]
                  ELSE [components |-> components]]

\* json.Unmarshal(text, &response) with response a struct of one field,
\* Characters [][]int, tagged "characters": field names match without regard
\* to case, other members are skipped, the last matching member wins.
\* DecodeResponse is the decoding of the parsed text r.
ResponseFields(v) == SelectSeq(v.items, LAMBDA m : ToLower(m.key) = <<"c","h","a","r","a","c","t","e","r","s">>)

DecodeResponse(r) ==
    IF ~r.ok THEN [ok |-> FALSE, characters |-> <<>>]
    ELSE IF r.val.type = "null" THEN [ok |-> TRUE, characters |-> <<>>]
    ELSE IF r.val.type # "object" THEN [ok |-> FALSE, characters |-> <<>>]
    ELSE IF \E n \in 1..Len(ResponseFields(r.val)) : ~MatrixOk(ResponseFields(r.val)[n].val)
    THEN [ok |-> FALSE, characters |-> <<>>]
    ELSE IF ResponseFields(r.val) = <<>> THEN [ok |-> TRUE, characters |-> <<>>]
    ELSE [ok |-> TRUE,
          characters |-> MatrixValue(ResponseFields(r.val)[Len(ResponseFields(r.val))].val)]

UnmarshalResponse(text) == DecodeResponse(ParseJson(text))

\* Lines 415-427 without the second json.Unmarshal: the wrapped shape only.
decodeCharactersWrappedOnly(wrapped, bare) ==
    IF wrapped.ok /\ Len(wrapped.characters) > 0
    THEN [err |-> noError, characters |-> wrapped.characters]
    ELSE [err |-> [kind |-> "decode", text |-> "vbml API returned no characters"],
          characters |-> <<>>]

\* Lines 415-427 without the two tests of len: whatever decodes is returned.
decodeCharactersAnyLength(wrapped, bare) ==
    IF wrapped.ok
    THEN [err |-> noError, characters |-> wrapped.characters]
    ELSE IF bare.ok
    THEN [err |-> noError, characters |-> bare.characters]
    ELSE [err |-> [kind |-> "decode", text |-> "vbml API returned no characters"],
          characters |-> <<>>]

\* Lines 415-427 of FormatMessage: wrapped and bare are what the two calls
\* of json.Unmarshal gave.
decodeCharacters(wrapped, bare) ==
    IF wrapped.ok /\ Len(wrapped.characters) > 0
    THEN [err |-> noError, characters |-> wrapped.characters]
    ELSE IF bare.ok /\ Len(bare.characters) > 0
    THEN [err |-> noError, characters |-> bare.characters]
    ELSE [err |-> [kind |-> "decode", text |-> "vbml API returned no characters"],
          characters |-> <<>>]

\* FormatMessage with status 409 taken for success, as postMessage takes it.
FormatMessageConflictOk(status, bodyBytes) ==
    IF status # StatusConflict /\ (status < 200 \/ status >= 300)
    THEN [err |-> [kind |-> "status", api |-> "vbml", status |-> status, body |-> TrimSpace(bodyBytes)],
          characters |-> <<>>]
    ELSE decodeCharacters(UnmarshalResponse(bodyBytes), UnmarshalMatrix(bodyBytes))

\* FormatMessage from the response on: the matrix or the error it returns.
FormatMessage(status, bodyBytes) ==
    IF status < 200 \/ status >= 300
    THEN [err |-> [kind |-> "status", api |-> "vbml", status |-> status, body |-> TrimSpace(bodyBytes)],
          characters |-> <<>>]
    ELSE decodeCharacters(UnmarshalResponse(bodyBytes), UnmarshalMatrix(bodyBytes))

\* A failed httpClient.Do reported as the board's answer 503 would be.
sendRequestErrorAsStatus ==
    [kind |-> "status", api |-> "vestaboard", status |-> 503, body |-> <<>>]

\* httpClient.Do returned an error: no response was obtained.
sendRequestError == [kind |-> "network", text |-> "send request"]

\* io.ReadAll(resp.Body) returned an error: postMessage (line 450) and
\* FormatMessage (line 405) return before they log or look at the response.
readResponseError(api) ==
    [kind |-> "network",
     text |-> IF api = "vbml" THEN "read VBML response" ELSE "read API response"]

\* What an operation returns when it gets no response it can read.
transportErrors(api) == {sendRequestError, readResponseError(api)}

\* err.Error() for an error of the client, as the literal text its format
\* starts with followed by the values formatted into it; "cause" stands for
\* the text of the wrapped error.
Error(e) ==
    CASE e.kind = "network" -> <<e.text, ": ", "cause">>
      [] e.kind = "status" -> <<e.api, " API returned ", e.status, ": ", e.body>>
      [] e.kind = "decode" -> <<e.text>>
      [] e.kind = "config" -> <<e.text>>
      [] OTHER -> <<>>

\* json.Marshal of a string: quoted, with the escapes of encoding/json.
MarshalChar(c) ==
    IF c = "\"" THEN <<"\\", "\"">>
    ELSE IF c = "\\" THEN <<"\\", "\\">>
    ELSE IF c = "\n" THEN <<"\\", "n">>
    ELSE IF c = "\r" THEN <<"\\", "r">>
    ELSE IF c = "\t" THEN <<"\\", "t">>
    ELSE IF c = "\f" THEN <<"\\", "f">>
    ELSE IF c = "BS" THEN <<"\\", "b">>
    ELSE IF c = "BEL" THEN <<"\\", "u", "0", "0", "0", "7">>
    ELSE IF c = "VT" THEN <<"\\", "u", "0", "0", "0", "b">>
    ELSE IF c = "<" THEN <<"\\", "u", "0", "0", "3", "c">>
    ELSE IF c = ">" THEN <<"\\", "u", "0", "0", "3", "e">>
    ELSE IF c = "&" THEN <<"\\", "u", "0", "0", "2", "6">>
    ELSE <<c>>

RECURSIVE MarshalChars(_)
MarshalChars(str) ==
    IF str = <<>> THEN <<>> ELSE MarshalChar(Head(str)) \o MarshalChars(Tail(str))

MarshalString(str) == <<"\"">> \o MarshalChars(str) \o <<"\"">>

\* json.Marshal of the payload of FormatMessage (lines 370-387): the keys of
\* a map are written in sorted order.
MarshalCompose(body) ==
    <<"{","\"","c","o","m","p","o","n","e","n","t","s","\"",":","[","{","\"","s","t","y","l","e","\"",":","{","\"","a","l","i","g","n","\"",":">> \o MarshalString(body.components[1].style.align)
    \o <<",","\"","j","u","s","t","i","f","y","\"",":">> \o MarshalString(body.components[1].style.justify)
    \o <<"}",",","\"","t","e","m","p","l","a","t","e","\"",":">> \o MarshalString(body.components[1].template)
    \o <<"}","]">>
    \o (IF "style" \in DOMAIN body
        THEN <<",","\"","s","t","y","l","e","\"",":","{","\"","h","e","i","g","h","t","\"",":">> \o FormatInt(body.style.height)
             \o <<",","\"","w","i","d","t","h","\"",":">> \o FormatInt(body.style.width) \o <<"}">>
        ELSE <<>>)
    \o <<"}">>

\* json.Marshal of the payload of SendCharacters (line 365).
MarshalCharacters(body) == <<"{","\"","c","h","a","r","a","c","t","e","r","s","\"",":">> \o MarshalMatrix(body.characters) \o <<"}">>

\* json.Marshal(payload) for the two payloads of the client.
Marshal(body) ==
    IF "characters" \in DOMAIN body THEN MarshalCharacters(body) ELSE MarshalCompose(body)

\* json.Indent(dst, src, "", "  ") of a valid text, from its parsed value:
\* insignificant whitespace is dropped, every element of a non-empty array or
\* object goes on a line of its own, two more spaces in, ": " follows a key.
Indentation(depth) == [n \in 1..(2 * depth) |-> " "]

RECURSIVE IndentValue(_, _)
RECURSIVE IndentItems(_, _, _)
IndentValue(v, depth) ==
    IF v.type = "array"
    THEN IF v.items = <<>> THEN <<"[", "]">>
         ELSE <<"[">> \o IndentItems(v.items, depth + 1, FALSE)
              \o <<"\n">> \o Indentation(depth) \o <<"]">>
    ELSE IF v.type = "object"
    THEN IF v.items = <<>> THEN <<"{", "}">>
         ELSE <<"{">> \o IndentItems(v.items, depth + 1, TRUE)
              \o <<"\n">> \o Indentation(depth) \o <<"}">>
    ELSE IF v.type = "string" THEN <<"\"">> \o v.text \o <<"\"">>
    ELSE IF v.type = "null" THEN <<"n", "u", "l", "l">>
    ELSE v.text

IndentItems(items, depth, keyed) ==
    IF items = <<>> THEN <<>>
    ELSE <<"\n">> \o Indentation(depth)
         \o (IF keyed
             THEN <<"\"">> \o Head(items).key \o <<"\"", ":", " ">>
                  \o IndentValue(Head(items).val, depth)
             ELSE IndentValue(Head(items), depth))
         \o (IF Len(items) > 1 THEN <<",">> ELSE <<>>)
         \o IndentItems(Tail(items), depth, keyed)

\* prettyJSON, trimmed being bytes.TrimSpace(payload) and parsed what the
\* scanner of json.Indent made of it.
prettyTrimmed(trimmed, parsed) ==
    IF Len(trimmed) = 0 THEN <<"<","e","m","p","t","y",">">>
    ELSE IF parsed.ok THEN IndentValue(parsed.val, 0)
    ELSE trimmed

prettyJSON(payload) == prettyTrimmed(TrimSpace(payload), ParseJson(TrimSpace(payload)))

\* One call of fmt.Fprintf(c.logWriter, ...): the label of the line and the
\* value formatted into it.
Fprintf(label, value) == [label |-> label, value |-> value]

\* logHTTP with the status of the response written after its payload.
logHTTPStatusLast(c, direction, url, payload, statusCode) ==
    IF ~c.verbose \/ c.logWriter = nilWriter THEN <<>>
    ELSE IF direction = "request"
    THEN <<Fprintf("request URL", url),
           Fprintf("request payload", prettyJSON(payload))>>
    ELSE <<Fprintf("response URL", url),
           Fprintf("response payload", prettyJSON(payload)),
           Fprintf("response status", statusCode)>>

\* logHTTP: the calls of fmt.Fprintf it makes, in order.
logHTTP(c, direction, url, payload, statusCode) ==
    IF ~c.verbose \/ c.logWriter = nilWriter THEN <<>>
    ELSE IF direction = "request"
    THEN <<Fprintf("request URL", url),
           Fprintf("request payload", prettyJSON(payload))>>
    ELSE <<Fprintf("response URL", url),
           Fprintf("response status", statusCode),
           Fprintf("response payload", prettyJSON(payload))>>

\* What the log sink holds of the writes: a broken writer returns an error
\* from every Write (the error is discarded) and keeps nothing.  sent is the
\* number of requests handed to httpClient.Do before the writes.
Written(c, writes, sent) ==
    IF c.logWriter = bufferWriter
    THEN [n \in 1..Len(writes) |-> [label |-> writes[n].label, value |-> writes[n].value,
                                     sent |-> sent]]
    ELSE <<>>

\* The log of the request and of the response of one exchange.
requestLog(c, request, sent) ==
    Written(c, logHTTP(c, "request", request.url, Marshal(request.body), 0), sent)

responseLog(c, request, status, respBody, sent) ==
    Written(c, logHTTP(c, "response", request.url, respBody, status), sent)

----------------------------------------------------------------------------
(* cmd/root.go: the commands *)

Step(fn, arg, ret) == [fn |-> fn, arg |-> arg, ret |-> ret]

\* The stderr of the process, as buildClient hands it to the client.
stderr == bufferWriter

buildClient(env, opts) ==
    NewClient(TrimSpace(env.token), <<WithVerboseLogging(opts.verbose, stderr)>>)

resolveModel(value, envModel) ==
    LET flag == ToLower(TrimSpace(value))
        named == IF flag = <<>> THEN ToLower(TrimSpace(envModel)) ELSE flag
        model == IF named = <<>> THEN <<"f","l","a","g","s","h","i","p">> ELSE named
    IN  IF model = <<"f","l","a","g","s","h","i","p">> \/ model = <<"n","o","t","e">>
        THEN [err |-> noError, value |-> model]
        ELSE [err |-> [kind |-> "usage", what |-> "model", value |-> value], value |-> <<>>]

resolveAlign(value) ==
    LET named == ToLower(TrimSpace(value))
        align == IF named = <<>> THEN <<"c","e","n","t","e","r">> ELSE named
    IN  IF align = <<"t","o","p">> \/ align = <<"c","e","n","t","e","r">> \/ align = <<"b","o","t","t","o","m">>
        THEN [err |-> noError, value |-> align]
        ELSE [err |-> [kind |-> "usage", what |-> "align", value |-> value], value |-> <<>>]

resolveJustify(value) ==
    LET named == ToLower(TrimSpace(value))
        justify == IF named = <<>> THEN <<"c","e","n","t","e","r">> ELSE named
    IN  IF justify = <<"l","e","f","t">> \/ justify = <<"c","e","n","t","e","r">> \/ justify = <<"r","i","g","h","t">> \/ justify = <<"j","u","s","t","i","f","i","e","d">>
        THEN [err |-> noError, value |-> justify]
        ELSE [err |-> [kind |-> "usage", what |-> "justify", value |-> value], value |-> <<>>]

stdinIsTerminal(stdin) == stdin.tty

\* io.ReadAll(stdin) followed by strings.TrimSpace; the read does not fail.
readStdin(stdin) ==
    [err |-> noError, value |-> TrimSpace(stdin.data),
     steps |-> <<Step("io.ReadAll", <<>>, stdin.data)>>]

resolveValue(stdin, value) ==
    IF value # <<"-">> THEN [err |-> noError, value |-> value, steps |-> <<>>]
    ELSE readStdin(stdin)

resolveCommandInput(stdin, args, argName) ==
    IF Len(args) = 1 THEN resolveValue(stdin, args[1])
    ELSE IF stdinIsTerminal(stdin)
    THEN [err |-> [kind |-> "usage", what |-> "missing", value |-> argName], value |-> <<>>,
          steps |-> <<>>]
    ELSE readStdin(stdin)

\* What a command has done when it returns or stands at httpClient.Do: where
\* it is, the error, the pipeline calls made, the request issued, the matrix
\* held and whether usageError printed the help text.
Returned(e, made) ==
    [pc |-> "done", err |-> e, steps |-> made, requests |-> <<>>, characters |-> <<>>,
     help |-> e.kind = "usage"]

\* A command that hands its request to httpClient.Do a second time.
RequestedTwice(at, made, request, matrix) ==
    [pc |-> at, err |-> noError, steps |-> made, requests |-> <<request, request>>,
     characters |-> matrix, help |-> FALSE]

Requested(at, made, request, matrix) ==
    [pc |-> at, err |-> noError, steps |-> made, requests |-> <<request>>, characters |-> matrix,
     help |-> FALSE]

\* sendRawResolved, parsed being what parseCharacters returned.
sendParsed(client, parsed, made) ==
    IF parsed.err # ""
    THEN Returned([kind |-> "usage", what |-> "raw", value |-> parsed.err], made)
    ELSE Requested("write", made, SendCharacters(client, parsed.characters), parsed.characters)

sendRawResolved(client, resolved, made) == sendParsed(client, parseCharacters(resolved), made)

\* runSendRaw, built and read being what buildClient and resolveCommandInput
\* returned.
sendRawInput(built, read) ==
    IF built.err # noError THEN Returned(built.err, <<>>)
    ELSE IF read.err # noError THEN Returned(read.err, read.steps)
    ELSE sendRawResolved(built.client, read.value, read.steps)

runSendRaw(c) ==
    sendRawInput(buildClient(c.env, c.opts), resolveCommandInput(c.stdin, c.args, "characters-json"))

\* Lines 184-185 with substituteTemplateCharacterAliases called first.
composeStepsAliasFirst(resolved) ==
    <<Step("substituteTemplateCharacterAliases", resolved,
           substituteTemplateCharacterAliases(resolved)),
      Step("decodeEscapes", substituteTemplateCharacterAliases(resolved),
           decodeEscapes(substituteTemplateCharacterAliases(resolved)))>>

\* Lines 184-185 of runSend: the two rewrites of the resolved input.
composeSteps(resolved) ==
    <<Step("decodeEscapes", resolved, decodeEscapes(resolved)),
      Step("substituteTemplateCharacterAliases", decodeEscapes(resolved),
           substituteTemplateCharacterAliases(decodeEscapes(resolved)))>>

\* Lines 171-186 with the escape-decoded text handed to FormatMessage as it
\* stood before alias resolution.
sendTemplateUnresolved(client, made, composed, model, align, justify) ==
    IF model.err # noError THEN Returned(model.err, made)
    ELSE IF align.err # noError THEN Returned(align.err, made)
    ELSE IF justify.err # noError THEN Returned(justify.err, made)
    ELSE Requested("compose", made \o composed,
                   FormatMessageRequest(client, composed[1].ret,
                                        model.value, align.value, justify.value),
                   <<>>)

\* Lines 171-186 of runSend: the options are validated, the input rewritten
\* (composed) and handed to FormatMessage.
sendTemplate(client, made, composed, model, align, justify) ==
    IF model.err # noError THEN Returned(model.err, made)
    ELSE IF align.err # noError THEN Returned(align.err, made)
    ELSE IF justify.err # noError THEN Returned(justify.err, made)
    ELSE Requested("compose", made \o composed,
                   FormatMessageRequest(client, composed[Len(composed)].ret,
                                        model.value, align.value, justify.value),
                   <<>>)

\* Lines 168-186 of runSend: raw is what looksLikeRawCharactersJSON answered
\* for the resolved input.
sendResolved(c, client, made, resolved, raw) ==
    IF raw
    THEN sendRawResolved(client, resolved,
                         Append(made, Step("looksLikeRawCharactersJSON", resolved, raw)))
    ELSE sendTemplate(client, Append(made, Step("looksLikeRawCharactersJSON", resolved, raw)),
                      composeSteps(resolved),
                      resolveModel(c.opts.model, c.env.model),
                      resolveAlign(c.opts.align),
                      resolveJustify(c.opts.justify))

\* Lines 159-186 with the error of resolveCommandInput looked at before the
\* error of buildClient.
sendInputReadFirst(c, built, read) ==
    IF read.err # noError THEN Returned(read.err, read.steps)
    ELSE IF built.err # noError THEN Returned(built.err, read.steps)
    ELSE sendResolved(c, built.client, read.steps, read.value,
                      looksLikeRawCharactersJSON(read.value))

\* Lines 159-186 of runSend: built and read are what buildClient and
\* resolveCommandInput returned.
sendInput(c, built, read) ==
    IF built.err # noError THEN Returned(built.err, <<>>)
    ELSE IF read.err # noError THEN Returned(read.err, read.steps)
    ELSE sendResolved(c, built.client, read.steps, read.value,
                      looksLikeRawCharactersJSON(read.value))

\* runSend up to its first HTTP request (lines 157-186).
runSend(c, args) ==
    sendInput(c, buildClient(c.env, c.opts), resolveCommandInput(c.stdin, args, "message"))

\* The formatOnly argument of runSend: the --format flag of send, true for
\* format, false for clear.
formatOnly(c) == c.cmd = "format" \/ (c.cmd = "send" /\ c.format)

\* What the command prints: the help text of usageError, a line of JSON.
helpText == [kind |-> "help", text |-> <<>>]

jsonLine(matrix) == [kind |-> "line", text |-> MarshalMatrix(matrix) \o <<"\n">>]

----------------------------------------------------------------------------
(* Invocations *)

\* Response statuses and bodies the two services answer with.
httpStatuses == 100..599

cliStatuses == {200, 204, 302, 404, 409, 500}

responseBodies == {
    <<>>,
    <<"{","\"","c","h","a","r","a","c","t","e","r","s","\"",":","[","[","7","2",",","6","9","]",",","[","0",",","0","]","]","}">>,
    <<"[","[","1",",","2","]","]","\n">>,
    <<"{","\"","c","h","a","r","a","c","t","e","r","s","\"",":","[","]","}">>,
    <<" ","b","o","a","r","d"," ","i","s"," ","b","u","s","y","\n">>,
    <<"[","]">>,
    <<"n","u","l","l">>,
    <<"{","\"","c","h","a","r","a","c","t","e","r","s","\"",":","[","[","1",",","2","]">>}

texts == {
    <<"h","e","l","l","o"," ","{","g","r","e","e","n","}">>,
    <<"H","e","l","l","o","\\","n","w","o","r","l","d">>,
    <<"H","e","l","l","o"," ","{","{","n","o","w","}","}","\\","n","{"," ","h","e","a","r","t"," ","}">>,
    <<"H","e","l","l","o","\\","q","w","o","r","l","d"," ","{","r","e","d","}">>,
    <<>>,
    <<"[","[","7","2",",","6","9","]",",","[","0",",","0","]","]">>,
    <<" ","[","[","1",",","2","]",",","[","3",",","4","]","]"," ">>,
    <<"[","[","1","]","]">>,
    <<"["," "," "," "," "," "," "," "," ","]">>,
    <<"\f","[","[","1",",","2","]",",","[","3",",","4","]","]">>,
    <<"[","n","u","l","l",",","n","u","l","l","]">>,
    <<"[","[","1",",","2","]",",","\\","n","[","3",",","4","]","]">>,
    <<"[","[","1",",","2","]",",","[","3",",","4","]">>}

pipedTexts == {<<" ","h","e","l","l","o"," ","{","g","r","e","e","n","}","\n">>, <<"[","[","1",",","2","]",",","[","3",",","4","]","]","\n">>}

terminal == [tty |-> TRUE, data |-> <<>>]

sources ==
    {[args |-> <<t>>, stdin |-> terminal] : t \in texts}
    \cup {[args |-> <<<<"-">>>>, stdin |-> [tty |-> FALSE, data |-> d]] : d \in pipedTexts}
    \cup {[args |-> <<>>, stdin |-> [tty |-> FALSE, data |-> d]] : d \in pipedTexts}
    \cup {[args |-> <<>>, stdin |-> terminal]}

\* The flag defaults of send, format and clear (lines 73-75).
defaultOpts == [model |-> <<>>, align |-> <<"c","e","n","t","e","r">>, justify |-> <<"c","e","n","t","e","r">>,
                verbose |-> FALSE]

optionSets == {
    [opts |-> defaultOpts, envModel |-> <<>>],
    [opts |-> [defaultOpts EXCEPT !.verbose = TRUE], envModel |-> <<>>],
    [opts |-> defaultOpts, envModel |-> <<" ","N","o","t","e"," ">>],
    [opts |-> [model |-> <<"N","O","T","E">>, align |-> <<" ","T","o","p">>, justify |-> <<"J","U","S","T","I","F","I","E","D">>, verbose |-> FALSE], envModel |-> <<"b","o","g","u","s">>],
    [opts |-> [model |-> <<"b","o","g","u","s">>, align |-> <<"c","e","n","t","e","r">>, justify |-> <<"c","e","n","t","e","r">>, verbose |-> FALSE], envModel |-> <<>>],
    [opts |-> defaultOpts, envModel |-> <<"b","o","g","u","s">>],
    [opts |-> [model |-> <<>>, align |-> <<"m","i","d","d","l","e">>, justify |-> <<"c","e","n","t","e","r">>, verbose |-> FALSE], envModel |-> <<>>],
    [opts |-> [model |-> <<>>, align |-> <<>>, justify |-> <<"w","i","d","e">>, verbose |-> FALSE], envModel |-> <<>>]}

tokens == {<<" ","t","0","k","3","n","\n">>, <<" ">>, <<>>}

Invocation(cmd, format, source, o, token) ==
    [cmd |-> cmd, format |-> format, args |-> source.args, stdin |-> source.stdin,
     opts |-> o.opts, env |-> [token |-> token, model |-> o.envModel]]

\* send takes at most one argument, format exactly one, clear none; send-raw
\* has no model, align or justify flag.
cliCalls ==
    {Invocation("send", f, s, o, t) : f \in BOOLEAN, s \in sources, o \in optionSets, t \in tokens}
    \cup {Invocation("format", FALSE, s, o, t) :
            s \in {x \in sources : Len(x.args) = 1}, o \in optionSets, t \in tokens}
    \cup {Invocation("clear", FALSE, s, o, t) :
            s \in {x \in sources : Len(x.args) = 0}, o \in optionSets, t \in tokens}
    \cup {Invocation("send-raw", FALSE, s, o, t) :
            s \in sources, o \in {x \in optionSets : [x.opts EXCEPT !.verbose = FALSE] = defaultOpts},
            t \in tokens}

idleResolver ==
    /\ input = <<>>
    /\ verdict = <<>>
    /\ idleScan

----------------------------------------------------------------------------
(* One invocation of vbcli: the command runs to its first HTTP request, each *)
(* response (or failure to get one) lets it run to the next request or to   *)
(* its return.                                                              *)

Init ==
    /\ idleResolver
    /\ call \in cliCalls
    /\ pc = "start"
    /\ steps = <<>>
    /\ requests = <<>>
    /\ responses = <<>>
    /\ err = noError
    /\ characters = <<>>
    /\ stdout = <<>>
    /\ log = <<>>
    /\ ctx = "live"

\* The client of the invocation: the one buildClient makes for a command, the
\* one NewClient makes when a method of the client is called by itself.
ClientOf(c) ==
    IF c.cmd \in {"SendCharacters", "FormatMessage"}
    THEN NewClient(c.apiKey, c.options).client
    ELSE buildClient(c.env, c.opts).client

\* The log of the requests issued (at most one), written before
\* httpClient.Do is called.
requestsLog(c, issued, sent) ==
    IF issued = <<>> THEN <<>> ELSE requestLog(c, issued[1], sent)

\* The command runs from its start to r.
Runs(r) ==
    /\ pc' = r.pc
    /\ err' = r.err
    /\ steps' = steps \o r.steps
    /\ requests' = requests \o r.requests
    /\ log' = log \o requestsLog(ClientOf(call), r.requests, Len(requests))
    /\ characters' = r.characters
    /\ stdout' = IF r.help THEN Append(stdout, helpText) ELSE stdout
    /\ UNCHANGED <<call, ctx, responses, scanVars, verdict>>

\* sendCmd.RunE
RunSend ==
    /\ pc = "start"
    /\ call.cmd = "send"
    /\ Runs(runSend(call, call.args))

\* formatCmd.RunE
RunFormat ==
    /\ pc = "start"
    /\ call.cmd = "format"
    /\ Runs(runSend(call, call.args))

\* clearCmd.RunE: runSend with the one argument "".
RunClear ==
    /\ pc = "start"
    /\ call.cmd = "clear"
    /\ Runs(runSend(call, << <<>> >>))

\* sendRawCmd.RunE
RunSendRaw ==
    /\ pc = "start"
    /\ call.cmd = "send-raw"
    /\ Runs(runSendRaw(call))

\* runSend going on to SendCharacters whatever FormatMessage returned.
ComposeReturnsUnchecked(got, logged) ==
    /\ err' = got.err
    /\ characters' = got.characters
    /\ IF formatOnly(call)
       THEN /\ pc' = "done"
            /\ stdout' = Append(stdout, jsonLine(got.characters))
            /\ log' = log \o logged
            /\ UNCHANGED requests
       ELSE /\ pc' = "write"
            /\ requests' = Append(requests, SendCharacters(ClientOf(call), got.characters))
            /\ log' = log \o logged
                       \o requestLog(ClientOf(call),
                                     SendCharacters(ClientOf(call), got.characters),
                                     Len(requests))
            /\ UNCHANGED stdout

\* The compose service answers: FormatMessage logs the response and returns
\* got, and runSend goes on (lines 187-203) to print the matrix or to the
\* request of SendCharacters.
ComposeReturns(got, logged) ==
    /\ err' = got.err
    /\ characters' = got.characters
    /\ IF got.err # noError
       THEN pc' = "done" /\ log' = log \o logged /\ UNCHANGED <<requests, stdout>>
       ELSE IF formatOnly(call)
       THEN /\ pc' = "done"
            /\ stdout' = Append(stdout, jsonLine(got.characters))
            /\ log' = log \o logged
            /\ UNCHANGED requests
       ELSE /\ pc' = "write"
            /\ requests' = Append(requests, SendCharacters(ClientOf(call), got.characters))
            /\ log' = log \o logged
                       \o requestLog(ClientOf(call),
                                     SendCharacters(ClientOf(call), got.characters),
                                     Len(requests))
            /\ UNCHANGED stdout

ComposeRespond(statuses) ==
    /\ pc = "compose"
    /\ ctx = "live"
    /\ \E status \in statuses, body \in responseBodies :
        /\ responses' = Append(responses, [status |-> status, body |-> body])
        /\ ComposeReturns(FormatMessage(status, body),
                          responseLog(ClientOf(call), requests[Len(requests)], status, body,
                                      Len(requests)))
    /\ UNCHANGED <<call, ctx, steps, scanVars, verdict>>

\* httpClient.Do (line 399) or io.ReadAll (line 405) fails in FormatMessage,
\* and its caller returns the error.
ComposeFail ==
    /\ pc = "compose"
    /\ pc' = "done"
    /\ err' \in transportErrors("vbml")
    /\ UNCHANGED <<call, ctx, steps, requests, responses, characters, stdout, log, scanVars, verdict>>

\* The board answers although the context is cancelled, as it would to a
\* request made without the context.
WriteRespondWithoutContext(statuses) ==
    /\ pc = "write"
    /\ \E status \in statuses, body \in responseBodies :
        /\ responses' = Append(responses, [status |-> status, body |-> body])
        /\ err' = postMessage(status, body)
        /\ log' = log \o responseLog(ClientOf(call), requests[Len(requests)], status, body,
                                     Len(requests))
    /\ pc' = "done"
    /\ UNCHANGED <<call, ctx, steps, requests, characters, stdout, scanVars, verdict>>

\* The board answers: postMessage returns and so does the command.
WriteRespond(statuses) ==
    /\ pc = "write"
    /\ ctx = "live"
    /\ \E status \in statuses, body \in responseBodies :
        /\ responses' = Append(responses, [status |-> status, body |-> body])
        /\ err' = postMessage(status, body)
        /\ log' = log \o responseLog(ClientOf(call), requests[Len(requests)], status, body,
                                     Len(requests))
    /\ pc' = "done"
    /\ UNCHANGED <<call, ctx, steps, requests, characters, stdout, scanVars, verdict>>

\* httpClient.Do (line 444) or io.ReadAll (line 450) fails in postMessage.
WriteFail ==
    /\ pc = "write"
    /\ pc' = "done"
    /\ err' \in transportErrors("vestaboard")
    /\ UNCHANGED <<call, ctx, steps, requests, responses, characters, stdout, log, scanVars, verdict>>

Next ==
    \/ RunSend
    \/ RunFormat
    \/ RunClear
    \/ RunSendRaw
    \/ ComposeRespond(cliStatuses)
    \/ ComposeFail
    \/ WriteRespond(cliStatuses)
    \/ WriteFail

Spec == Init /\ [][Next]_vars

----------------------------------------------------------------------------
(* The client alone: one call of SendCharacters or of FormatMessage,         *)
(* answered with any status.                                                *)

clientMatrices == {<<<<72, 69>>, <<0, 0>>>>, <<<<1>>>>}

\* The options NewClient is given: none, or WithVerboseLogging with a writer
\* that works, with none, with one that fails, and with logging off.
clientOptions == {
    <<>>,
    <<WithVerboseLogging(TRUE, bufferWriter)>>,
    <<WithVerboseLogging(TRUE, nilWriter)>>,
    <<WithVerboseLogging(TRUE, brokenWriter)>>,
    <<WithVerboseLogging(FALSE, bufferWriter)>>}

sendCalls ==
    {[cmd |-> "SendCharacters", apiKey |-> <<"t","0","k","3","n">>, options |-> o, characters |-> m] :
        m \in clientMatrices, o \in clientOptions}

FormatCall(message, model, align, justify, o) ==
    [cmd |-> "FormatMessage", apiKey |-> <<"t","0","k","3","n">>, options |-> o,
     message |-> message, model |-> model, align |-> align, justify |-> justify]

formatCalls ==
    {FormatCall(<<"h","e","l","l","o"," ","{","6","6","}">>, <<"f","l","a","g","s","h","i","p">>, <<"c","e","n","t","e","r">>, <<"c","e","n","t","e","r">>, o) : o \in clientOptions}
    \cup {FormatCall(<<"S","a","y"," ","\"","h","i","\""," ","<","n","o","w",">","\n","a","n","d"," ","g","o">>, m, <<"t","o","p">>, <<"l","e","f","t">>, <<>>) :
            m \in {<<"n","o","t","e">>, <<"f","l","a","g","s","h","i","p">>, <<"N","o","t","e">>}}

\* The bodies the compose service answers a request with: those of
\* responseBodies, and every non-empty matrix in the bare and in the wrapped
\* shape.
Wrapped(text) == <<"{","\"","c","h","a","r","a","c","t","e","r","s","\"",":">> \o text \o <<"}">>

bareBodies == {MarshalMatrix(m) : m \in matrices \ {<<>>}}

wrappedBodies == {Wrapped(b) : b \in bareBodies}

composeAnswers ==
    {[status |-> status, body |-> body] : status \in httpStatuses, body \in responseBodies}
    \cup {[status |-> 200, body |-> body] : body \in bareBodies \cup wrappedBodies}

InitClient ==
    /\ idleResolver
    /\ call \in sendCalls \cup formatCalls
    /\ pc = "start"
    /\ steps = <<>>
    /\ requests = <<>>
    /\ responses = <<>>
    /\ err = noError
    /\ characters = <<>>
    /\ stdout = <<>>
    /\ log = <<>>
    /\ ctx = "live"

\* SendCharacters is called and postMessage issues its request.
CallSendCharacters ==
    /\ pc = "start"
    /\ call.cmd = "SendCharacters"
    /\ pc' = "write"
    /\ requests' = Append(requests, SendCharacters(ClientOf(call), call.characters))
    /\ log' = log \o requestLog(ClientOf(call), SendCharacters(ClientOf(call), call.characters),
                                Len(requests))
    /\ characters' = call.characters
    /\ UNCHANGED <<call, ctx, steps, responses, err, stdout, scanVars, verdict>>

\* FormatMessage is called and issues its request (lines 370-399).
CallFormatMessage ==
    /\ pc = "start"
    /\ call.cmd = "FormatMessage"
    /\ pc' = "compose"
    /\ requests' = Append(requests,
                          FormatMessageRequest(ClientOf(call), call.message, call.model,
                                               call.align, call.justify))
    /\ log' = log \o requestLog(ClientOf(call),
                                FormatMessageRequest(ClientOf(call), call.message, call.model,
                                                     call.align, call.justify),
                                Len(requests))
    /\ UNCHANGED <<call, ctx, steps, responses, err, characters, stdout, scanVars, verdict>>

\* The compose service answers and FormatMessage returns (lines 405-427).
FormatMessageReturns(got) ==
    /\ err' = got.err
    /\ characters' = got.characters
    /\ pc' = "done"

FormatMessageRespond ==
    /\ pc = "compose"
    /\ ctx = "live"
    /\ call.cmd = "FormatMessage"
    /\ \E answer \in composeAnswers :
        /\ responses' = Append(responses, answer)
        /\ log' = log \o responseLog(ClientOf(call), requests[Len(requests)], answer.status,
                                     answer.body, Len(requests))
        /\ FormatMessageReturns(FormatMessage(answer.status, answer.body))
    /\ UNCHANGED <<call, ctx, steps, requests, stdout, scanVars, verdict>>

\* The caller cancels the context it gave to the operation while the request
\* is in flight.  The request was made with http.NewRequestWithContext (lines
\* 392 and 436), so httpClient.Do and the read of the body end with the
\* context's error from then on.
Cancel ==
    /\ pc \in {"compose", "write"}
    /\ ctx = "live"
    /\ ctx' = "cancelled"
    /\ UNCHANGED <<call, pc, steps, requests, responses, err, characters, stdout, log,
                   scanVars, verdict>>

NextClient ==
    \/ Cancel
    \/ CallSendCharacters
    \/ WriteRespond(httpStatuses)
    \/ WriteFail
    \/ CallFormatMessage
    \/ FormatMessageRespond
    \/ ComposeFail

SpecClient == InitClient /\ [][NextClient]_vars

----------------------------------------------------------------------------
(* Properties of the client, checked under SpecClient *)

\* C1: SendCharacters returns success for every response status in 200..299
\* and for status 409; for every other status it returns an error that
\* carries the response status and the text of the response body (without
\* the whitespace around it).
C1_WriteStatus ==
    (call.cmd = "SendCharacters" /\ pc = "done" /\ responses # <<>>) =>
        LET status == responses[Len(responses)].status
            body == responses[Len(responses)].body
        IN  IF status \in 200..299 \/ status = 409
            THEN err = noError
            ELSE err.kind = "status" /\ err.status = status /\ err.body = TrimSpace(body)

\* SendCharacters has returned nil on a 409 answer.
C1_Witness ==
    /\ call.cmd = "SendCharacters"
    /\ pc = "done"
    /\ responses # <<>>
    /\ responses[1].status = 409
    /\ err = noError

IsComposeRequest(request) == request.url = vbmlBaseURL \o vbmlFormatPath

\* FormatMessage has returned after the answer of the compose service.
FormatAnswered == call.cmd = "FormatMessage" /\ pc = "done" /\ responses # <<>>

\* C13: the compose request built by FormatMessage has exactly one component,
\* holding the template text and the given align and justify; it carries a
\* top-level style of height 3 and width 15 when the model is "note" and no
\* top-level style at all when the model is "flagship".
C13_ComposeRequest ==
    (call.cmd = "FormatMessage" /\ requests # <<>>) =>
        /\ Len(requests) = 1
        /\ IsComposeRequest(requests[1])
        /\ requests[1].body.components
               = <<[template |-> call.message,
                    style |-> [align |-> call.align, justify |-> call.justify]]>>
        /\ call.model = <<"n","o","t","e">> =>
               /\ DOMAIN requests[1].body = {"components", "style"}
               /\ requests[1].body.style = [height |-> 3, width |-> 15]
        /\ call.model = <<"f","l","a","g","s","h","i","p">> =>
               /\ DOMAIN requests[1].body = {"components"}
               /\ ~Contains(Marshal(requests[1].body), <<"\"","h","e","i","g","h","t","\"">>)

\* FormatMessage has sent the request of a note: the style is in its payload.
C13_Witness ==
    /\ call.cmd = "FormatMessage"
    /\ call.model = <<"n","o","t","e">>
    /\ pc = "compose"
    /\ Contains(Marshal(requests[1].body), <<"\"","s","t","y","l","e","\"",":","{","\"","h","e","i","g","h","t","\"",":","3",",","\"","w","i","d","t","h","\"",":","1","5","}">>)

\* C14: for every non-empty matrix M, FormatMessage returns M both when the
\* body of the 2xx response is the wrapped object {"characters": M} and when
\* it is the bare array M.
C14_WrappedAndBare ==
    (/\ FormatAnswered
     /\ responses[1].status \in 200..299
     /\ responses[1].body \in bareBodies \cup wrappedBodies) =>
        /\ err = noError
        /\ Len(characters) > 0
        /\ responses[1].body \in {MarshalMatrix(characters), Wrapped(MarshalMatrix(characters))}

\* FormatMessage has decoded a bare array, the fallback shape.
C14_Witness ==
    /\ FormatAnswered
    /\ responses[1].body = <<"[","[","7","2",",","0","]",",","[","0","]","]">>
    /\ characters = <<<<72, 0>>, <<0>>>>
    /\ err = noError

\* Bodies that hold a non-empty matrix in neither shape: no body, text that
\* is not JSON, a truncated object, null, and the empty matrix in either shape.
noMatrixBodies == {
    <<>>,
    <<"{","\"","c","h","a","r","a","c","t","e","r","s","\"",":","[","]","}">>,
    <<" ","b","o","a","r","d"," ","i","s"," ","b","u","s","y","\n">>,
    <<"[","]">>,
    <<"n","u","l","l">>,
    <<"{","\"","c","h","a","r","a","c","t","e","r","s","\"",":","[","[","1",",","2","]">>}

\* C15: when the compose service answers 2xx with a body that yields a
\* non-empty matrix in neither shape, FormatMessage returns a decode error and
\* no matrix, and the error is not the one of a non-success status.
C15_NoCharactersIsError ==
    (/\ FormatAnswered
     /\ responses[1].status \in 200..299
     /\ responses[1].body \in noMatrixBodies) =>
        /\ err.kind = "decode"
        /\ err # FormatMessage(500, responses[1].body).err
        /\ characters = <<>>

\* The compose service answered 200 with an empty matrix.
C15_Witness ==
    /\ FormatAnswered
    /\ responses[1].status = 200
    /\ responses[1].body = <<"{","\"","c","h","a","r","a","c","t","e","r","s","\"",":","[","]","}">>
    /\ err.kind = "decode"

\* C16: for the compose call only the statuses 200..299 are success: for any
\* other status, 409 included, FormatMessage returns an error carrying the
\* status and the body text, and no matrix, whatever the body holds.
C16_ComposeStatus ==
    FormatAnswered =>
        IF responses[1].status \in 200..299
        THEN err.kind # "status"
        ELSE /\ err.kind = "status"
             /\ err.status = responses[1].status
             /\ err.body = TrimSpace(responses[1].body)
             /\ characters = <<>>

\* The compose service answered 409 with a well-formed matrix.
C16_Witness ==
    /\ FormatAnswered
    /\ responses[1].status = 409
    /\ responses[1].body = <<"{","\"","c","h","a","r","a","c","t","e","r","s","\"",":","[","[","7","2",",","6","9","]",",","[","0",",","0","]","]","}">>
    /\ err.kind = "status"
    /\ characters = <<>>

\* A method of the client was called by itself.
ClientCall == call.cmd \in {"SendCharacters", "FormatMessage"}

\* Verbose logging is on and the log sink takes what is written to it.
Logging(c) == ClientOf(c).verbose /\ ClientOf(c).logWriter = bufferWriter

\* text is the JSON text source, indented: the same value, and every element
\* of a non-empty array or object on a line of its own, two spaces in.
IsIndentedJson(text, source) ==
    /\ ParseJson(text).ok
    /\ ParseJson(text).val = ParseJson(source).val
    /\ ParseJson(source).val.items # <<>> =>
           /\ SubSeq(text, 2, 4) = <<"\n", " ", " ">>
           /\ text[Len(text) - 1] = "\n"

\* C17: with verbose logging on, every request/response pair writes to the
\* log sink, in this order: the request URL, the indented JSON body of the
\* request (both before the request is sent), the response URL, the numeric
\* status code of the response, and the indented JSON body of the response or
\* <empty> when the body is empty.
C17_VerboseLogOrder ==
    (ClientCall /\ Logging(call)) =>
        /\ Len(log) = 2 * Len(requests) + 3 * Len(responses)
        /\ \A k \in 1..Len(requests) :
            /\ log[5 * k - 4].label = "request URL"
            /\ log[5 * k - 4].value = requests[k].url
            /\ log[5 * k - 4].sent = k - 1
            /\ log[5 * k - 3].label = "request payload"
            /\ log[5 * k - 3].sent = k - 1
            /\ IsIndentedJson(log[5 * k - 3].value, Marshal(requests[k].body))
        /\ \A k \in 1..Len(responses) :
            /\ log[5 * k - 2].label = "response URL"
            /\ log[5 * k - 2].value = requests[k].url
            /\ log[5 * k - 2].sent = k
            /\ log[5 * k - 1].label = "response status"
            /\ log[5 * k - 1].value = responses[k].status
            /\ log[5 * k - 1].sent = k
            /\ log[5 * k].label = "response payload"
            /\ log[5 * k].sent = k
            /\ IF TrimSpace(responses[k].body) = <<>>
               THEN log[5 * k].value = <<"<","e","m","p","t","y",">">>
               ELSE ParseJson(TrimSpace(responses[k].body)).ok =>
                        IsIndentedJson(log[5 * k].value, responses[k].body)

\* A logging client has sent a matrix and was answered 200 with no body: the
\* log ends with the status 200 and the placeholder.
C17_Witness ==
    /\ call.cmd = "SendCharacters"
    /\ Logging(call)
    /\ pc = "done"
    /\ Len(log) = 5
    /\ log[4].value = 200
    /\ log[5].value = <<"<","e","m","p","t","y",">">>

\* The call with no option given to NewClient: logging off, no log sink.
Quiet(c) == [c EXCEPT !.options = <<>>]

\* The request a call of the client issues and what it returns for an answer.
RequestOf(c) ==
    IF c.cmd = "SendCharacters" THEN SendCharacters(ClientOf(c), c.characters)
    ELSE FormatMessageRequest(ClientOf(c), c.message, c.model, c.align, c.justify)

ResultOf(c, answer) ==
    IF c.cmd = "SendCharacters"
    THEN [err |-> postMessage(answer.status, answer.body), characters |-> c.characters]
    ELSE FormatMessage(answer.status, answer.body)

\* C18: verbose logging never affects control flow or return values: with
\* logging on, off, without a log sink or with one whose writes fail,
\* SendCharacters and FormatMessage issue the request and return the result
\* or error that the client without logging issues and returns for the same
\* arguments and the same answer.
C18_LoggingIsSideChannel ==
    ClientCall =>
        /\ requests = (IF pc = "start" THEN <<>> ELSE <<RequestOf(Quiet(call))>>)
        /\ (pc = "done" /\ responses # <<>>) =>
               /\ Len(responses) = 1
               /\ [err |-> err, characters |-> characters] = ResultOf(Quiet(call), responses[1])
        /\ (pc = "done" /\ responses = <<>>) =>
               err \in transportErrors(IF call.cmd = "FormatMessage" THEN "vbml" ELSE "vestaboard")
        /\ ~Logging(call) => log = <<>>

\* A client whose log sink fails every write has sent a matrix and returned
\* nil.
C18_Witness ==
    /\ call.cmd = "SendCharacters"
    /\ ClientOf(call).verbose
    /\ ClientOf(call).logWriter = brokenWriter
    /\ pc = "done"
    /\ responses # <<>>
    /\ err = noError
    /\ log = <<>>

\* The service a call of the client talks to.
ApiOf(c) == IF c.cmd = "FormatMessage" THEN "vbml" ELSE "vestaboard"

\* C23: when the caller's context is cancelled while the request of
\* SendCharacters or FormatMessage is in flight, the operation takes no
\* response: it can return at once, and what it returns is the error of a
\* failed exchange, never success.
C23_CancelAborts ==
    (ClientCall /\ ctx = "cancelled") =>
        /\ responses = <<>>
        /\ pc = "write" => ENABLED WriteFail
        /\ pc = "compose" => ENABLED ComposeFail
        /\ pc = "done" =>
               /\ err \in transportErrors(ApiOf(call))
               /\ Len(requests) = 1

\* SendCharacters was cancelled with its request in flight and has returned
\* the error of httpClient.Do.
C23_Witness ==
    /\ call.cmd = "SendCharacters"
    /\ ctx = "cancelled"
    /\ pc = "done"
    /\ Len(requests) = 1
    /\ err = sendRequestError

\* The failure classes an error message of the client belongs to, told by
\* the text it starts with.
FailureClasses(message) ==
    {class \in {"construction", "network", "status", "decode"} :
        CASE class = "construction" -> message[1] \in {"marshal payload", "build request"}
          [] class = "network" ->
                message[1] \in {"send request", "read API response", "read VBML response"}
          [] class = "status" ->
                /\ message[1] \in {"vestaboard", "vbml"}
                /\ Len(message) > 2
                /\ message[2] = " API returned "
                /\ message[3] \in 100..599
          [] OTHER -> message = <<"vbml API returned no characters">>}

\* The failure class of what a finished call went through: no response read,
\* a status that is no success, a body without a matrix; "none" is success.
Outcome ==
    IF responses = <<>> THEN "network"
    ELSE IF ResultOf(call, responses[1]).err = noError THEN "none"
    ELSE IF responses[1].status \notin 200..299 THEN "status"
    ELSE "decode"

\* C24: a failed call of SendCharacters or FormatMessage reports exactly one
\* failure class, the class of what happened to it, and the message of a
\* network-level failure (no response, or a body that cannot be read) is the
\* message of no protocol-level failure, whatever the status and the body.
C24_FailureClasses ==
    (ClientCall /\ pc = "done") =>
        /\ err = noError <=> Outcome = "none"
        /\ err # noError =>
               /\ FailureClasses(Error(err)) = {Outcome}
               /\ Outcome = "network" =>
                      \A answer \in composeAnswers :
                          /\ Error(err) # Error(postMessageConflictFails(answer.status, answer.body))
                          /\ FormatMessage(answer.status, answer.body).err # noError =>
                                 Error(err) # Error(FormatMessage(answer.status, answer.body).err)

\* FormatMessage has returned the error of a body it could not read.
C24_Witness ==
    /\ call.cmd = "FormatMessage"
    /\ pc = "done"
    /\ responses = <<>>
    /\ err = readResponseError("vbml")
    /\ FailureClasses(Error(err)) = {"network"}

----------------------------------------------------------------------------
(* Properties of the commands, checked under Spec *)

IsWrite(request) == request.url = baseURL \o writePath

IsCompose(request) == request.url = vbmlBaseURL \o vbmlFormatPath

\* The positions of the sniffer's calls in the pipeline.
SnifferSteps == {n \in 1..Len(steps) : steps[n].fn = "looksLikeRawCharactersJSON"}

\* The arguments runSend is called with.
ArgsOf(c) == IF c.cmd = "clear" THEN << <<>> >> ELSE c.args

\* The input text as resolveCommandInput hands it to runSend.
ResolvedInput(c) == resolveCommandInput(c.stdin, ArgsOf(c), "message").value

\* C3: the pipeline runs escape decoding, then alias resolution, then the
\* sniffer: the sniffer decides on the escape-decoded, alias-resolved string.
C3_SnifferLast ==
    \A n \in SnifferSteps :
        /\ n >= 3
        /\ steps[n - 2].fn = "decodeEscapes"
        /\ steps[n - 1].fn = "substituteTemplateCharacterAliases"
        /\ steps[n - 1].arg = steps[n - 2].ret
        /\ steps[n].arg = steps[n - 1].ret

\* C3, amended: the sniffer runs first, on the input as resolved and before
\* any rewriting.  When it answers true the raw-send path is taken and neither
\* rewrite runs.  When it answers false and the options are valid, escape
\* decoding runs on the resolved input, alias resolution on its result, and
\* the compose request carries the string so obtained as its template.
C3_SnifferFirst ==
    \A n \in SnifferSteps :
        LET later == SubSeq(steps, n + 1, Len(steps))
        IN  /\ \A k \in 1..(n - 1) : steps[k].fn = "io.ReadAll"
            /\ steps[n].arg = ResolvedInput(call)
            /\ IF steps[n].ret
               THEN /\ later = <<>>
                    /\ \A k \in 1..Len(requests) : IsWrite(requests[k])
               ELSE \/ later = <<>> /\ requests = <<>> /\ err.kind = "usage"
                    \/ /\ Len(later) = 2
                       /\ later[1].fn = "decodeEscapes"
                       /\ later[1].arg = steps[n].arg
                       /\ later[2].fn = "substituteTemplateCharacterAliases"
                       /\ later[2].arg = later[1].ret
                       /\ requests # <<>>
                       /\ IsCompose(requests[1])
                       /\ requests[1].body.components[1].template = later[2].ret

\* The sniffer answered false, both rewrites changed the text and the compose
\* request is in flight.
C3_Witness ==
    /\ pc = "compose"
    /\ Len(steps) = 3
    /\ steps[1].fn = "looksLikeRawCharactersJSON"
    /\ ~steps[1].ret
    /\ steps[2].ret # steps[2].arg
    /\ steps[3].ret # steps[3].arg

\* C4: format, and send with --format, never issue a write request to the
\* board, whatever the input text.
C4_FormatNeverWrites ==
    (call.cmd \in {"send", "format"} /\ formatOnly(call)) =>
        \A n \in 1..Len(requests) : ~IsWrite(requests[n])

\* An invalid model, align or justify value.
InvalidOptions(c) ==
    \/ resolveModel(c.opts.model, c.env.model).err # noError
    \/ resolveAlign(c.opts.align).err # noError
    \/ resolveJustify(c.opts.justify).err # noError

\* An input taken for a raw matrix that is malformed JSON or an empty matrix.
InvalidRaw(c) ==
    /\ buildClient(c.env, c.opts).err = noError
    /\ resolveCommandInput(c.stdin, ArgsOf(c), "message").err = noError
    /\ looksLikeRawCharactersJSON(ResolvedInput(c))
    /\ parseCharacters(ResolvedInput(c)).err # ""

\* C5: in send, format and clear an invalid model, align or justify value,
\* malformed raw-matrix JSON or an empty matrix ends the invocation with an
\* error, and the invocation issues no HTTP request.
C5_InvalidValueNoRequest ==
    (call.cmd \in {"send", "format", "clear"} /\ (InvalidOptions(call) \/ InvalidRaw(call))) =>
        /\ requests = <<>>
        /\ pc = "done" => err # noError

\* C10: an input of send that the sniffer classifies as raw is a valid matrix
\* with at least one row; the raw-send path parses it and sends it and does
\* not end in a validation error.
C10_AcceptedIsSent ==
    \A n \in SnifferSteps :
        (call.cmd = "send" /\ steps[n].ret) =>
            /\ parseCharacters(steps[n].arg).err = ""
            /\ Len(parseCharacters(steps[n].arg).characters) >= 1
            /\ err.kind # "usage"
            /\ requests # <<>>
            /\ IsWrite(requests[1])
            /\ requests[1].body.characters = parseCharacters(steps[n].arg).characters

\* The text without the whitespace of the JSON grammar.
WithoutJsonSpace(s) == SelectSeq(s, LAMBDA c : ~IsJsonSpace(c))

\* C11: when the sniffer answers true for the input of send, the matrix is
\* passed directly to SendCharacters: the one request of the invocation is
\* the write, no compose request is issued, and the matrix sent is the matrix
\* written in the input.
C11_RawBypassesCompose ==
    \A n \in SnifferSteps :
        (call.cmd = "send" /\ steps[n].ret) =>
            /\ Len(requests) = 1
            /\ IsWrite(requests[1])
            /\ MarshalMatrix(requests[1].body.characters)
                   = WithoutJsonSpace(TrimSpace(steps[n].arg))

\* C12: when the input of send is not classified as raw (and the options are
\* valid) a compose request is issued; it has a single component, and the
\* template of that component is the alias resolver applied to the escape
\* decoder applied to the input: hello {green} is sent as hello {66}, and a
\* backslash followed by n as a newline.
C12_TemplateIsRewrittenInput ==
    \A n \in SnifferSteps :
        (call.cmd = "send" /\ ~steps[n].ret) =>
            /\ ~InvalidOptions(call) => requests # <<>>
            /\ requests # <<>> =>
                /\ IsCompose(requests[1])
                /\ Len(requests[1].body.components) = 1
                /\ requests[1].body.components[1].template
                       = substituteTemplateCharacterAliases(decodeEscapes(ResolvedInput(call)))
                /\ ResolvedInput(call) = <<"h","e","l","l","o"," ","{","g","r","e","e","n","}">> =>
                       requests[1].body.components[1].template = <<"h","e","l","l","o"," ","{","6","6","}">>
                /\ ResolvedInput(call) = <<"H","e","l","l","o","\\","n","w","o","r","l","d">> =>
                       requests[1].body.components[1].template = <<"H","e","l","l","o","\n","w","o","r","l","d">>

\* send has composed the piped input hello {green}: the request carries
\* hello {66}.
C12_Witness ==
    /\ call.cmd = "send"
    /\ pc = "compose"
    /\ call.args = <<>>
    /\ ResolvedInput(call) = <<"h","e","l","l","o"," ","{","g","r","e","e","n","}">>
    /\ requests[1].body.components[1].template = <<"h","e","l","l","o"," ","{","6","6","}">>

\* The positions of the compose requests and of the write requests.
ComposeRequests == {n \in 1..Len(requests) : IsCompose(requests[n])}

WriteRequests == {n \in 1..Len(requests) : IsWrite(requests[n])}

\* The answer to the latest request is a failure of the call that issued it.
LastAnswerFails ==
    /\ Len(responses) = Len(requests)
    /\ responses # <<>>
    /\ LET answer == responses[Len(responses)]
       IN  IF IsWrite(requests[Len(requests)])
           THEN answer.status \notin 200..299 /\ answer.status # 409
           ELSE \/ answer.status \notin 200..299
                \/ answer.body \in noMatrixBodies

\* C19: no transport operation retries.  Every call of SendCharacters or
\* FormatMessage issues one request and no other, whatever the outcome, and a
\* failure (no response, a non-success status, an undecodable body) ends the
\* invocation with an error; so one invocation issues at most one compose
\* request and at most one write request.
C19_NoRetry ==
    /\ Cardinality(ComposeRequests) <= 1
    /\ Cardinality(WriteRequests) <= 1
    /\ Len(responses) <= Len(requests)
    /\ Len(requests) <= Len(responses) + 1
    /\ Len(requests) = Len(responses) + 1 => pc \in {"compose", "write", "done"}
    /\ (pc = "done" /\ Len(requests) = Len(responses) + 1) =>
           err \in transportErrors(IF IsWrite(requests[Len(requests)]) THEN "vestaboard" ELSE "vbml")
    /\ LastAnswerFails => (pc = "done" /\ err # noError)

\* The compose service answered 500: send has returned the error after its
\* one request.
C19_Witness ==
    /\ call.cmd = "send"
    /\ pc = "done"
    /\ Len(requests) = 1
    /\ IsCompose(requests[1])
    /\ responses = <<[status |-> 500, body |-> <<>>]>>
    /\ err.kind = "status"

\* C20: client construction fails with the configuration error when the
\* access token is empty or only whitespace, and every command builds the
\* client first: an invocation without a token ends with that error, issues
\* no HTTP request and reads no input.
C20_MissingToken ==
    /\ \A t \in {<<>>, <<" ">>, <<"\t", " ", "\n">>} :
           NewClient(t, <<>>).err = errMissingAPIKey
    /\ (TrimSpace(call.env.token) = <<>> /\ pc # "start") =>
           /\ pc = "done"
           /\ err = errMissingAPIKey
           /\ requests = <<>>
           /\ steps = <<>>
           /\ stdout = <<>>
           /\ log = <<>>
    /\ (TrimSpace(call.env.token) # <<>> /\ pc # "start") => err # errMissingAPIKey

\* send was run with input piped to it and a token of one blank: it has
\* returned the configuration error.
C20_Witness ==
    /\ call.cmd = "send"
    /\ call.env.token = <<" ">>
    /\ ~call.stdin.tty
    /\ pc = "done"
    /\ err = errMissingAPIKey

\* What FormatMessage made of the n-th response.
Composed(n) == FormatMessage(responses[n].status, responses[n].body)

\* C25: at most one HTTP request is in flight at any time; a write request
\* that follows a compose request was issued after the compose request had
\* been answered with a 2xx status and a non-empty matrix, and it carries
\* exactly that matrix; when compose fails in any way no write request is
\* issued.
C25_ComposeThenWrite ==
    /\ Len(requests) - Len(responses) \in {0, 1}
    /\ pc \in {"compose", "write"} <=>
           (Len(requests) = Len(responses) + 1 /\ err \notin transportErrors("vestaboard") \cup transportErrors("vbml"))
    /\ \A n \in 2..Len(requests) :
           /\ IsWrite(requests[n])
           /\ IsCompose(requests[n - 1])
           /\ responses[n - 1].status \in 200..299
           /\ Composed(n - 1).err = noError
           /\ Composed(n - 1).characters # <<>>
           /\ requests[n].body = [characters |-> Composed(n - 1).characters]
    /\ (requests # <<>> /\ IsCompose(requests[1])) =>
           /\ (responses # <<>> /\ Composed(1).err # noError) =>
                  (Len(requests) = 1 /\ pc = "done" /\ err = Composed(1).err)
           /\ (responses = <<>> /\ pc = "done") =>
                  (Len(requests) = 1 /\ err \in transportErrors("vbml"))

\* send has had its text composed and has issued the write of the matrix
\* the compose service returned in the wrapped shape.
C25_Witness ==
    /\ call.cmd = "send"
    /\ Len(requests) = 2
    /\ IsCompose(requests[1])
    /\ IsWrite(requests[2])
    /\ Len(responses) = 1
    /\ pc = "write"
    /\ requests[2].body.characters = <<<<72, 69>>, <<0, 0>>>>

\* The access token the client of the invocation holds.
Token == ClientOf(call).apiKey

\* The URLs of the two endpoints: fixed texts without a token in them.
endpointURLs == {baseURL \o writePath, vbmlBaseURL \o vbmlFormatPath}

\* The header fields of a request other than the content type.
OtherHeaders(request) ==
    SelectSeq(request.header,
              LAMBDA h : h # [name |-> "Content-Type", value |-> "application/json"])

\* C28: the access token is sent in the token header of the requests to the
\* board and nowhere else: no request to the compose service carries it, no
\* request has it in its URL or in its body, and no line of the verbose log
\* holds it.
C28_TokenOnlyInHeader ==
    Token # <<>> =>
        /\ \A n \in 1..Len(requests) :
               /\ requests[n].url \in endpointURLs
               /\ ~Contains(Marshal(requests[n].body), Token)
               /\ OtherHeaders(requests[n]) =
                      (IF IsWrite(requests[n])
                       THEN <<[name |-> headerName, value |-> Token]>>
                       ELSE <<>>)
        /\ \A n \in 1..Len(log) :
               IF log[n].label \in {"request URL", "response URL"}
               THEN log[n].value \in endpointURLs
               ELSE IF log[n].label = "response status"
               THEN log[n].value \in 100..599
               ELSE ~Contains(log[n].value, Token)

\* send --verbose has had its text composed and the matrix written: both
\* exchanges are in the log and the write request carried the token.
C28_Witness ==
    /\ call.cmd = "send"
    /\ call.opts.verbose
    /\ pc = "done"
    /\ Len(requests) = 2
    /\ Len(responses) = 2
    /\ Len(log) = 10
    /\ IsWrite(requests[2])
    /\ requests[2].header[2] = [name |-> headerName, value |-> <<"t","0","k","3","n">>]

----------------------------------------------------------------------------
(* Properties of the sniffer, checked under SpecSniff *)

\* The text is an array of arrays of integers and nothing else: it decodes,
\* and no null stands in for a row or a cell.
IsIntegerMatrixText(s) ==
    UnmarshalMatrix(s).ok /\ ~Contains(s, <<"n", "u", "l", "l">>)

\* C9: the sniffer answers true only for a trimmed input of length at least
\* 10 that starts with "[", ends with "]" and parses as an array of arrays of
\* integers, and answers false for every other input.
C9_SnifferExact ==
    verdict # <<>> =>
        verdict[1] = (/\ Len(TrimSpace(input)) >= 10
                      /\ Head(TrimSpace(input)) = "["
                      /\ TrimSpace(input)[Len(TrimSpace(input))] = "]"
                      /\ IsIntegerMatrixText(TrimSpace(input)))

----------------------------------------------------------------------------
(* Properties of decodeEscapes, checked under SpecDecode *)

Pieces == call.pieces

HasKind(pieces, kind) == \E n \in 1..Len(pieces) : pieces[n].kind = kind

\* C21: decodeEscapes returns its input unmodified when the input holds a
\* backslash sequence the grammar cannot decode, and its result is always
\* the input itself or the text with every escape sequence decoded, never a
\* text decoded in part.
C21_AllOrNothing ==
    verdict # <<>> =>
        /\ verdict[1] \in {input, Literal(Pieces)}
        /\ HasKind(Pieces, "bad") => verdict[1] = input

\* A text with a decodable escape before an undecodable one has been given back as it was.
C21_Witness ==
    /\ verdict # <<>>
    /\ Len(Pieces) >= 2
    /\ Pieces[1].kind = "escape"
    /\ Pieces[Len(Pieces)].kind = "bad"
    /\ verdict[1] = input
    /\ verdict[1] # Literal(Pieces)

\* C22: a text all of whose backslash sequences are escapes of the grammar
\* comes back with each of them replaced by the character it stands for,
\* whatever other characters the text holds.
C22_EscapesDecoded ==
    (verdict # <<>> /\ ~HasKind(Pieces, "bad")) => verdict[1] = Literal(Pieces)

====
